---- MODULE Spec2Model ----
(***************************************************************************)
(* Threaded discussion engine of the anonymous posting bot (src/bot.py).   *)
(*                                                                         *)
(* src/bot.py holds two variants of the bot one after the other:           *)
(*   - the relational variant (lines 1-1184): users, posts, comments and   *)
(*     reactions are SQL tables, a comment row points at its parent;       *)
(*   - the nested-JSON variant (lines 1186-2726): a post row carries its   *)
(*     comments as nested lists comment -> replies -> replies, reactions   *)
(*     are the lists likes / dislikes of a comment.                        *)
(* The variable `variant` selects which one runs; it never changes.        *)
(*                                                                         *)
(* Updates are handled one at a time (Application.builder() is built       *)
(* without concurrent_updates), so a handler is one atomic action.  The    *)
(* comment branch and the like / dislike handler are also modelled step    *)
(* by step, from await to await, behind the same dispatcher.               *)
(***************************************************************************)
EXTENDS Integers, Sequences, FiniteSets, TLC

VARIABLES
    variant,    \* "relational" or "json": which variant of src/bot.py runs
    users,      \* users table: user id -> row, or NoUser
    posts,      \* posts table, post_id = position (AUTOINCREMENT from 1)
    comments,   \* relational: comments table, comment_id = position
    reactions,  \* relational: reactions table, rows in insertion order
    channel,    \* channel messages, message_id = position: the mirror
    intent,     \* history: last pending action each user started since
                \* their last message ("none" when there is none)
    outcome,    \* the reply the last handler sent to its user
    request,    \* the edit of a channel button the last handler requested
                \* from the Messenger (NoRequest when it requested none)
    tasks,      \* per user: the update waiting in the update queue or the
                \* position of its handler between two awaits, and the
                \* handler's local variables
    followers,  \* relational: followers table, rows in insertion order
    listing     \* the comment messages the last view handler sent, in the
                \* order it sent them

vars == <<variant, users, posts, comments, reactions, channel, intent, outcome,
          request, tasks, followers, listing>>

----------------------------------------------------------------------------
(* Bounds of the model *)

(* Posts, and comments (replies included), stored under Spec *)
MaxPosts == 2
MaxComments == 3
(* Posts and comments together, stored under SpecMirror *)
MaxRows == 4
(* Posts, comments and reactions together, stored under SpecReact *)
MaxStored == 5
(* SpecEvery: posts. *)
MaxThreads == 1
(* Posts and comments together, stored under SpecQueue *)
MaxQueued == 3
(* Posts, comments and reactions together, stored under SpecToggle *)
MaxToggled == 4
(* Comments and replies stored under SpecView *)
MaxViewed == 3
(* Comments and replies stored under SpecScenario *)
MaxScene == 3
(* Posts, comments and reactions together, stored under SpecKept *)
MaxKept == 4
(* Posts and comments together, stored under SpecStars *)
MaxRated == 6

(* SQL NULL / Python None.  Distinct from every id (ids start at 1) and    *)
(* from every list index (indexes start at 0).                             *)
NULL == -1

Users == {"u1", "u2", "u3"}

(* The two users of the specifications in which two users act. *)
Pair == {"u1", "u2"}
NoUser == [exists |-> FALSE]

CATEGORIES == {"Other"}

(* Content types of an incoming message. *)
Kinds == {"text", "photo", "voice", "other"}

(* An incoming message: update.message.text for a text message, the        *)
(* caption for a photo or a voice message, neither for anything else.      *)
Messages ==
    {[kind |-> "text", text |-> <<"h", "i">>],
     [kind |-> "photo", text |-> <<>>],
     [kind |-> "voice", text |-> <<>>],
     [kind |-> "other", text |-> <<>>]}

(* text = update.message.text or update.message.caption or "" *)
MessageText(m) == m.text

----------------------------------------------------------------------------
(* Storage helpers *)

(* Values of the sex column: the DEFAULT of the column, the two symbols    *)
(* the sex_ handler stores, and NULL.                                      *)
SexUnknown == "unknown"
SexMale == "male"
SexFemale == "female"

(* Row of the users table as INSERT INTO users (user_id, anonymous_name)   *)
(* leaves it: every flag at its DEFAULT 0, every target column NULL.  The  *)
(* followers column exists in the nested-JSON variant only (a JSON list    *)
(* of user ids); the relational variant keeps the followers table.         *)
NewUserRow ==
    [exists |-> TRUE,
     anonymous_name |-> <<"a", "n", "o", "n">>,
     sex |-> SexUnknown,
     followers |-> <<>>,
     awaiting_name |-> FALSE,
     waiting_for_post |-> FALSE,
     waiting_for_comment |-> FALSE,
     selected_category |-> "NULL",
     comment_post_id |-> NULL,
     comment_idx |-> NULL,
     reply_idx |-> NULL,
     nested_idx |-> NULL]

(* Python truthiness of an INTEGER column: NULL and 0 are false. *)
Truthy(x) == x # NULL /\ x # 0

(* A count of the top-level comments of the post only. *)
count_top_level_comments_rel(cs, post_id) ==
    Cardinality({i \in DOMAIN cs :
                    cs[i].post_id = post_id /\ cs[i].parent_comment_id = 0})

(* count_all_comments(post_id): SELECT COUNT FROM comments WHERE post_id = ? *)
count_all_comments_rel(cs, post_id) ==
    Cardinality({i \in DOMAIN cs : cs[i].post_id = post_id})

(* calculate_user_rating(user_id), lines 183-202: SELECT COUNT FROM posts  *)
(* WHERE author_id = ? plus SELECT COUNT FROM comments WHERE author_id = ? *)
calculate_user_rating_rel(ps, cs, user_id) ==
    Cardinality({p \in DOMAIN ps : ps[p].author_id = user_id})
        + Cardinality({c \in DOMAIN cs : cs[c].author_id = user_id})

(* SELECT COUNT FROM reactions WHERE comment_id = ? AND type = ? *)
reaction_count_rel(rs, comment_id, type) ==
    Cardinality({i \in DOMAIN rs :
                    rs[i].comment_id = comment_id /\ rs[i].type = type})

(* str.strip(): leading and trailing blanks removed. *)
RECURSIVE lstrip(_)
lstrip(t) == IF t # <<>> /\ Head(t) = " " THEN lstrip(Tail(t)) ELSE t

RECURSIVE rstrip(_)
rstrip(t) ==
    IF t # <<>> /\ t[Len(t)] = " " THEN rstrip(SubSeq(t, 1, Len(t) - 1)) ELSE t

strip(t) == rstrip(lstrip(t))

(* Python's `needle in hay` on strings: needle occurs as a substring. *)
Contains(needle, hay) ==
    \E i \in 0..(Len(hay) - Len(needle)) :
        SubSeq(hay, i + 1, i + Len(needle)) = needle

(* str.startswith(prefix) *)
StartsWith(prefix, data) ==
    Len(prefix) <= Len(data) /\ SubSeq(data, 1, Len(prefix)) = prefix

(* Callback data prefixes of the reaction controls, character by           *)
(* character; the ids that follow them are digits and underscores.         *)
LIKE == <<"l", "i", "k", "e">>
DIS == <<"d", "i", "s">>
LIKECOMMENT == LIKE \o <<"c", "o", "m", "m", "e", "n", "t", "_">>
DISLIKECOMMENT == DIS \o LIKECOMMENT
LIKEREPLY == LIKE \o <<"r", "e", "p", "l", "y", "_">>
DISLIKEREPLY == DIS \o LIKEREPLY
LIKENESTED == LIKE \o <<"n", "e", "s", "t", "e", "d", "_">>
DISLIKENESTED == DIS \o LIKENESTED

(* Longest anonymous name handle_message accepts. *)
MaxNameLen == 30

(* UPDATE users SET ... WHERE user_id = ?: a missing row stays missing. *)
UpdateUser(us, u, row) == IF us[u].exists THEN [us EXCEPT ![u] = row] ELSE us

(* Outcome of a Messenger request: the transport can fail at any call. *)
MessengerResults == {"ok", "failed"}

(* Outcome of the requests of the post branch, whose try block also holds  *)
(* the reply to the user (lines 1036, 2682): every request done, a channel *)
(* request rejected, or the channel requests done and reply_text raising.  *)
PostResults == MessengerResults \cup {"reply_failed"}

(* No edit of a channel button was requested. *)
NoRequest == [message_id |-> NULL, count |-> NULL, issued |-> FALSE]

(* edit_message_reply_markup(message_id = ..., "Comments (count)") *)
EditRequest(message_id, count) ==
    [message_id |-> message_id, count |-> count, issued |-> TRUE]

(* A user with no update in the queue and no handler running. *)
NoTask ==
    [pc |-> "idle", update |-> [kind |-> "none"], overlap |-> FALSE,
     post_id |-> NULL, row_found |-> FALSE, message_id |-> NULL, total |-> 0,
     net |-> "none", reply |-> "none", prev |-> "none", user |-> NoUser,
     local |-> <<>>]

(* The dispatcher of an application built with concurrent_updates(True):   *)
(* an update is taken while handlers are running.                          *)
Idle_concurrent_updates == TRUE

(* The dispatcher takes the next update only when no handler is running:   *)
(* the application is built without concurrent_updates and every handler   *)
(* is blocking, so process_update is awaited to its end (lines 1164-1173,  *)
(* 2706-2715).                                                             *)
Idle == \A u \in Users : tasks[u].pc \in {"idle", "queued", "done"}

----------------------------------------------------------------------------
(* Relational variant: /start *)

(* start(), lines 220-482.  The row is created on first contact.  Deep     *)
(* link writecomment_<post id> puts the user in comment mode; the other    *)
(* deep links and the plain /start only render messages.                   *)
start_rel(u, arg) ==
    /\ variant = "relational"
    /\ Idle
    /\ LET created == IF users[u].exists THEN users
                      ELSE [users EXCEPT ![u] = NewUserRow]
       IN IF arg.link = "writecomment"
          THEN /\ users' = UpdateUser(created, u,
                      [created[u] EXCEPT !.waiting_for_comment = TRUE,
                                         !.comment_post_id = arg.post_id])
               /\ intent' = [intent EXCEPT ![u] =
                      [kind |-> "comment", post_id |-> arg.post_id, parent |-> 0]]
               /\ outcome' = "type_comment"
               /\ request' = NoRequest
          ELSE /\ users' = created
               /\ intent' = intent
               /\ outcome' = "menu"
               /\ request' = NoRequest
    /\ UNCHANGED <<followers, listing, tasks, variant, posts, comments, reactions, channel>>

----------------------------------------------------------------------------
(* Relational variant: button_handler, one action per callback prefix *)

(* category_<code>, lines 552-562 *)
button_category_rel(u, category) ==
    /\ variant = "relational"
    /\ Idle
    /\ users[u].exists
    /\ users' = UpdateUser(users, u,
           [users[u] EXCEPT !.waiting_for_post = TRUE,
                            !.selected_category = category])
    /\ intent' = [intent EXCEPT ![u] = [kind |-> "post"]]
    /\ outcome' = "type_post"
    /\ request' = NoRequest
    /\ UNCHANGED <<followers, listing, tasks, variant, posts, comments, reactions, channel>>

(* edit_name, lines 605-610 *)
button_edit_name_rel(u) ==
    /\ variant = "relational"
    /\ Idle
    /\ users[u].exists
    /\ users' = UpdateUser(users, u, [users[u] EXCEPT !.awaiting_name = TRUE])
    /\ intent' = [intent EXCEPT ![u] = [kind |-> "name"]]
    /\ outcome' = "type_name"
    /\ request' = NoRequest
    /\ UNCHANGED <<followers, listing, tasks, variant, posts, comments, reactions, channel>>

(* writecomment_<post id>, lines 786-807 *)
button_writecomment_rel(u, post_id) ==
    /\ variant = "relational"
    /\ Idle
    /\ users[u].exists
    /\ users' = UpdateUser(users, u,
           [users[u] EXCEPT !.waiting_for_comment = TRUE,
                            !.comment_post_id = post_id])
    /\ intent' = [intent EXCEPT ![u] =
           [kind |-> "comment", post_id |-> post_id, parent |-> 0]]
    /\ outcome' = "type_comment"
    /\ request' = NoRequest
    /\ UNCHANGED <<followers, listing, tasks, variant, posts, comments, reactions, channel>>

(* reply_<post id>_<comment id>, lines 904-926: exactly three parts *)
button_reply_rel(u, post_id, comment_id) ==
    /\ variant = "relational"
    /\ Idle
    /\ users[u].exists
    /\ users' = UpdateUser(users, u,
           [users[u] EXCEPT !.waiting_for_comment = TRUE,
                            !.comment_post_id = post_id,
                            !.comment_idx = comment_id])
    /\ intent' = [intent EXCEPT ![u] =
           [kind |-> "comment", post_id |-> post_id, parent |-> comment_id]]
    /\ outcome' = "type_reply"
    /\ request' = NoRequest
    /\ UNCHANGED <<followers, listing, tasks, variant, posts, comments, reactions, channel>>

(* replytoreply_<post id>_<comment id>_<reply id>, lines 928-951 *)
button_replytoreply_rel(u, post_id, parent_comment_id, comment_id) ==
    /\ variant = "relational"
    /\ Idle
    /\ users[u].exists
    /\ users' = UpdateUser(users, u,
           [users[u] EXCEPT !.waiting_for_comment = TRUE,
                            !.comment_post_id = post_id,
                            !.comment_idx = parent_comment_id,
                            !.reply_idx = comment_id])
    /\ intent' = [intent EXCEPT ![u] =
           [kind |-> "comment", post_id |-> post_id, parent |-> comment_id]]
    /\ outcome' = "type_reply"
    /\ request' = NoRequest
    /\ UNCHANGED <<followers, listing, tasks, variant, posts, comments, reactions, channel>>

(* A callback whose data the handler does not take: after query.answer()  *)
(* the branch ends without a write or a message.                           *)
ignored_rel(u) ==
    /\ variant = "relational"
    /\ Idle
    /\ users[u].exists
    /\ outcome' = "ignored"
    /\ request' = NoRequest
    /\ UNCHANGED <<followers, listing, tasks, variant, users, posts, comments,
                   reactions, channel, intent>>

(* reply_<ids joined by _>, lines 904-909: parts = query.data.split("_")   *)
(* holds the prefix and the ids; the branch acts if len(parts) == 3.       *)
button_reply_parts_rel(u, ids) ==
    IF 1 + Len(ids) = 3 THEN button_reply_rel(u, ids[1], ids[2])
    ELSE ignored_rel(u)

(* replytoreply_<ids joined by _>, lines 928-934: if len(parts) == 4 *)
button_replytoreply_parts_rel(u, ids) ==
    IF 1 + Len(ids) = 4 THEN button_replytoreply_rel(u, ids[1], ids[2], ids[3])
    ELSE ignored_rel(u)

----------------------------------------------------------------------------
(* Relational variant: reactions *)

(* reaction_type = 'like' if 'like' in query.data else 'dislike' *)
reaction_type_rel(data) == IF Contains(LIKE, data) THEN "like" ELSE "dislike"

(* DELETE FROM reactions WHERE comment_id = ? AND user_id = ? *)
delete_reaction(rs, comment_id, user_id) ==
    LET Keep(r) == ~(r.comment_id = comment_id /\ r.user_id = user_id)
    IN SelectSeq(rs, Keep)

(* INSERT INTO reactions under UNIQUE(comment_id, user_id), lines 75-83:   *)
(* a second row for the pair raises IntegrityError and stores nothing.     *)
insert_reaction(rs, row) ==
    IF \E i \in DOMAIN rs : /\ rs[i].comment_id = row.comment_id
                            /\ rs[i].user_id = row.user_id
    THEN rs
    ELSE Append(rs, row)

(* Remove the existing reaction, add the new one (lines 812-822, 860-870) *)
toggle_reaction_rel(rs, comment_id, user_id, data) ==
    insert_reaction(delete_reaction(rs, comment_id, user_id),
                    [comment_id |-> comment_id, user_id |-> user_id,
                     type |-> reaction_type_rel(data)])

(* likecomment_<id> / dislikecomment_<id>, lines 808-854 *)
button_likecomment_rel(u, data, comment_id) ==
    /\ variant = "relational"
    /\ Idle
    /\ users[u].exists
    /\ StartsWith(LIKECOMMENT, data) \/ StartsWith(DISLIKECOMMENT, data)
    /\ reactions' = toggle_reaction_rel(reactions, comment_id, u, data)
    /\ outcome' = "counts"
    /\ request' = NoRequest
    /\ UNCHANGED <<followers, listing, tasks, variant, users, posts, comments, channel, intent>>

(* likereply_<id> / dislikereply_<id>, lines 856-902 *)
button_likereply_rel(u, data, comment_id) ==
    /\ variant = "relational"
    /\ Idle
    /\ users[u].exists
    /\ StartsWith(LIKEREPLY, data) \/ StartsWith(DISLIKEREPLY, data)
    /\ reactions' = toggle_reaction_rel(reactions, comment_id, u, data)
    /\ outcome' = "counts"
    /\ request' = NoRequest
    /\ UNCHANGED <<followers, listing, tasks, variant, users, posts, comments, channel, intent>>

----------------------------------------------------------------------------
(* Relational variant: handle_message, lines 953-1147 *)

NoIntent == [kind |-> "none"]

(* Content types the comment branch accepts (text, photo, voice). *)
SupportedKinds == {"text", "photo", "voice"}

(* edit_message_reply_markup on channel message `message_id` with a new    *)
(* keyboard: the label "Comments (total)" and the link comments_<post id>  *)
(* (lines 1081-1083, 2521-2523).  An id that names no channel message (None,   *)
(* or the lookup of a missing post row raising) always fails; the failure  *)
(* is caught and logged by the caller.  `failed` remembers that an update  *)
(* of this message was lost.  The request itself is kept in `request`.     *)
edit_counter(ch, message_id, post_id, total, net) ==
    IF message_id \in DOMAIN ch
    THEN IF net = "ok"
         THEN [ch EXCEPT ![message_id].count = total,
                         ![message_id].post_id = post_id]
         ELSE [ch EXCEPT ![message_id].failed = TRUE]
    ELSE ch

(* Post branch, lines 960-1040: the row is inserted first, then the        *)
(* channel message is sent, then the row gets the channel message id and   *)
(* the user is told "posted"; an exception of any of these is answered     *)
(* "Failed to post" (lines 1037-1039).                                     *)
message_post_rel(u, m, net) ==
    LET user == users[u]
        post_id == Len(posts) + 1
        row == [author_id |-> u, category |-> user.selected_category,
                channel_message_id |-> NULL]
    IN /\ users' = UpdateUser(users, u,
              [user EXCEPT !.waiting_for_post = FALSE,
                           !.selected_category = "NULL"])
       /\ IF net \in {"ok", "reply_failed"}
          THEN /\ channel' = Append(channel,
                      [count |-> 0, post_id |-> post_id, failed |-> FALSE])
               /\ posts' = Append(posts,
                      [row EXCEPT !.channel_message_id = Len(channel) + 1])
               /\ outcome' = IF net = "ok" THEN "posted" ELSE "post_failed"
               /\ request' = NoRequest
          ELSE /\ channel' = channel
               /\ posts' = Append(posts, row)
               /\ outcome' = "post_failed"
               /\ request' = NoRequest
       /\ UNCHANGED <<comments, reactions>>

(* Comment branch, lines 1043-1098: the row is inserted, the counter      *)
(* update is tried, the comment state is cleared, then the user is         *)
(* answered; when that reply_text raises (net = "reply_failed", the        *)
(* counter update done), the handler ends in the error handler.            *)
message_comment_rel(u, m, net) ==
    LET user == users[u]
        post_id == user.comment_post_id
        parent_comment_id ==
            IF Truthy(user.comment_idx) THEN user.comment_idx ELSE 0
    IN IF m.kind \notin SupportedKinds
       THEN /\ outcome' = "unsupported"
            /\ request' = NoRequest
            /\ UNCHANGED <<users, posts, comments, reactions, channel>>
       ELSE /\ comments' = Append(comments,
                   [post_id |-> post_id,
                    parent_comment_id |-> parent_comment_id,
                    author_id |-> u,
                    type |-> m.kind])
            /\ LET total == count_all_comments_rel(comments', post_id)
                   message_id == IF post_id \in DOMAIN posts
                                 THEN posts[post_id].channel_message_id
                                 ELSE NULL
               IN /\ channel' = edit_counter(channel, message_id, post_id, total,
                                             IF net = "failed" THEN "failed"
                                             ELSE "ok")
                  /\ request' = IF post_id \in DOMAIN posts
                                THEN EditRequest(message_id, total)
                                ELSE NoRequest
            /\ users' = UpdateUser(users, u,
                   [user EXCEPT !.waiting_for_comment = FALSE,
                                !.comment_post_id = NULL,
                                !.comment_idx = NULL,
                                !.reply_idx = NULL,
                                !.nested_idx = NULL])
            /\ outcome' = IF net = "reply_failed" THEN "error"
                          ELSE "comment_added"
            /\ UNCHANGED <<posts, reactions>>

(* Name branch, lines 1100-1112 *)
message_name_rel(u, m) ==
    LET new_name == strip(MessageText(m))
    IN /\ IF new_name # <<>> /\ Len(new_name) <= MaxNameLen
          THEN /\ users' = UpdateUser(users, u,
                      [users[u] EXCEPT !.anonymous_name = new_name,
                                       !.awaiting_name = FALSE])
               /\ outcome' = "name_updated"
               /\ request' = NoRequest
          ELSE /\ users' = users
               /\ outcome' = "name_invalid"
               /\ request' = NoRequest
       /\ UNCHANGED <<posts, comments, reactions, channel>>

(* The texts of the reply keyboard main_menu (lines 158-166), character    *)
(* by character; the first one stands for the emoji of the label.          *)
ASK_QUESTION ==
    <<"pray", " ", "A", "s", "k", " ", "Q", "u", "e", "s", "t", "i", "o", "n">>
VIEW_PROFILE ==
    <<"bust", " ", "V", "i", "e", "w", " ", "P", "r", "o", "f", "i", "l", "e">>
HELP == <<"?", " ", "H", "e", "l", "p">>
ABOUT_US == <<"i", " ", "A", "b", "o", "u", "t", " ", "U", "s">>

MenuTexts == {ASK_QUESTION, VIEW_PROFILE, HELP, ABOUT_US}

(* No pending flag: the reply-keyboard texts only render a message, any    *)
(* other message is ignored (lines 1114-1147, 2545-2578).                  *)
message_idle(u, m) ==
    /\ outcome' = IF MessageText(m) \in MenuTexts THEN "menu_text" ELSE "none"
    /\ request' = NoRequest
    /\ UNCHANGED <<users, posts, comments, reactions, channel>>

handle_message_rel(u, m, net) ==
    /\ variant = "relational"
    /\ Idle
    /\ users[u].exists
    /\ \/ net \in MessengerResults
       \/ users[u].waiting_for_post
       \/ users[u].waiting_for_comment /\ m.kind \in SupportedKinds
    /\ IF users[u].waiting_for_post THEN message_post_rel(u, m, net)
       ELSE IF users[u].waiting_for_comment THEN message_comment_rel(u, m, net)
       ELSE IF users[u].awaiting_name THEN message_name_rel(u, m)
       ELSE message_idle(u, m)
    /\ intent' = [intent EXCEPT ![u] = NoIntent]
    /\ UNCHANGED <<followers, listing, tasks, variant>>

----------------------------------------------------------------------------
(* What the bot has rendered: the callback data a user can send back *)

(* "Write Comment" is rendered by the comments_<post id> deep link, which  *)
(* answers "Post not found" for a missing post (lines 238-264).            *)
WriteCommentButtons_rel == DOMAIN posts

(* viewcomments lists the top-level comments of a post, each with          *)
(* reply_<post id>_<comment id> (lines 655-715).                           *)
ReplyButtons_rel ==
    {b \in (DOMAIN posts) \X (DOMAIN comments) :
        comments[b[2]].post_id = b[1] /\ comments[b[2]].parent_comment_id = 0}

(* ... and under each of them every row whose parent it is, with           *)
(* replytoreply_<post id>_<comment id>_<reply id> (lines 728-769).         *)
ReplyToReplyButtons_rel ==
    {b \in ReplyButtons_rel \X (DOMAIN comments) :
        comments[b[2]].parent_comment_id = b[1][2]}

----------------------------------------------------------------------------
(* Nested-JSON variant: storage helpers *)

(* A post row carries `comments`, a list of comments; a comment carries    *)
(* `replies`, a list of replies; a reply may carry `replies` again.  A     *)
(* missing 'replies' key reads as the empty list everywhere                *)
(* (.get('replies', []), setdefault('replies', [])), so the field is       *)
(* always present here.  List indexes are those of the code, from 0.       *)
At(list, idx) == list[idx + 1]

(* The comment, reply or nested reply at the list indexes `path`. *)
RECURSIVE NodeAt(_, _)
NodeAt(cs, path) ==
    IF Len(path) = 1 THEN At(cs, Head(path))
    ELSE NodeAt(At(cs, Head(path)).replies, Tail(path))

(* count_all_comments(comments), lines 1446-1452 *)
RECURSIVE count_all_comments_json(_)
count_all_comments_json(cs) ==
    IF cs = <<>> THEN 0
    ELSE 1 + count_all_comments_json(Head(cs).replies)
           + count_all_comments_json(Tail(cs))

(* calculate_user_rating(user_id), lines 1418-1438: the posts of the user, *)
(* then three nested loops over comments, their replies and the replies    *)
(* of those.                                                               *)
calculate_user_rating_json(ps, user_id) ==
    LET own == {p \in DOMAIN ps : ps[p].author_id = user_id}
        level1 ==
            UNION {{<<p, i>> : i \in {i \in DOMAIN ps[p].comments :
                        ps[p].comments[i].author_id = user_id}} :
                   p \in DOMAIN ps}
        level2 ==
            UNION {UNION {{<<p, i, j>> :
                           j \in {j \in DOMAIN ps[p].comments[i].replies :
                               ps[p].comments[i].replies[j].user_id = user_id}} :
                          i \in DOMAIN ps[p].comments} :
                   p \in DOMAIN ps}
        level3 ==
            UNION {UNION {UNION {{<<p, i, j, k>> :
                           k \in {k \in DOMAIN ps[p].comments[i].replies[j].replies :
                               ps[p].comments[i].replies[j].replies[k].user_id
                                   = user_id}} :
                                 j \in DOMAIN ps[p].comments[i].replies} :
                          i \in DOMAIN ps[p].comments} :
                   p \in DOMAIN ps}
    IN Cardinality(own) + Cardinality(level1) + Cardinality(level2)
           + Cardinality(level3)

(* Comments and replies stored in all posts. *)
RECURSIVE StoredJson(_)
StoredJson(ps) ==
    IF ps = <<>> THEN 0
    ELSE count_all_comments_json(Head(ps).comments) + StoredJson(Tail(ps))

(* new_reply / new_nested_reply, lines 2379-2385, 2423-2429, 2459-2465 *)
NewReply(u) == [user_id |-> u, likes |-> <<>>, dislikes |-> <<>>, replies |-> <<>>]

(* comment, lines 2489-2510 *)
NewComment(u, kind) ==
    [author_id |-> u, type |-> kind, likes |-> <<>>, dislikes |-> <<>>,
     replies |-> <<>>]

(* save_user(user_id, user) of the row read at the start of the handler,   *)
(* lines 1214-1248: INSERT OR REPLACE of the whole row.                    *)
save_user(us, u, row) == [us EXCEPT ![u] = row]

----------------------------------------------------------------------------
(* Nested-JSON variant: /start, lines 1457-1731 *)

start_json(u, arg) ==
    /\ variant = "json"
    /\ Idle
    /\ LET created == IF users[u].exists THEN users
                      ELSE save_user(users, u, NewUserRow)
       IN IF arg.link = "writecomment"
          THEN /\ users' = save_user(created, u,
                      [created[u] EXCEPT !.waiting_for_comment = TRUE,
                                         !.comment_post_id = arg.post_id])
               /\ intent' = [intent EXCEPT ![u] =
                      [kind |-> "comment", post_id |-> arg.post_id, parent |-> <<>>]]
               /\ outcome' = "type_comment"
               /\ request' = NoRequest
          ELSE /\ users' = created
               /\ intent' = intent
               /\ outcome' = "menu"
               /\ request' = NoRequest
    /\ UNCHANGED <<followers, listing, tasks, variant, posts, comments, reactions, channel>>

----------------------------------------------------------------------------
(* Nested-JSON variant: button_handler *)

(* category_<code>, lines 1797-1806 *)
button_category_json(u, category) ==
    /\ variant = "json"
    /\ Idle
    /\ users[u].exists
    /\ users' = save_user(users, u,
           [users[u] EXCEPT !.waiting_for_post = TRUE,
                            !.selected_category = category])
    /\ intent' = [intent EXCEPT ![u] = [kind |-> "post"]]
    /\ outcome' = "type_post"
    /\ request' = NoRequest
    /\ UNCHANGED <<followers, listing, tasks, variant, posts, comments, reactions, channel>>

(* edit_name, lines 1849-1852 *)
button_edit_name_json(u) ==
    /\ variant = "json"
    /\ Idle
    /\ users[u].exists
    /\ users' = save_user(users, u, [users[u] EXCEPT !.awaiting_name = TRUE])
    /\ intent' = [intent EXCEPT ![u] = [kind |-> "name"]]
    /\ outcome' = "type_name"
    /\ request' = NoRequest
    /\ UNCHANGED <<followers, listing, tasks, variant, posts, comments, reactions, channel>>

(* writecomment_<post id>, lines 2029-2049 *)
button_writecomment_json(u, post_id) ==
    /\ variant = "json"
    /\ Idle
    /\ users[u].exists
    /\ users' = save_user(users, u,
           [users[u] EXCEPT !.waiting_for_comment = TRUE,
                            !.comment_post_id = post_id])
    /\ intent' = [intent EXCEPT ![u] =
           [kind |-> "comment", post_id |-> post_id, parent |-> <<>>]]
    /\ outcome' = "type_comment"
    /\ request' = NoRequest
    /\ UNCHANGED <<followers, listing, tasks, variant, posts, comments, reactions, channel>>

(* reply_<post id>_<comment index>, lines 2248-2271 *)
button_reply_json(u, post_id, comment_idx) ==
    /\ variant = "json"
    /\ Idle
    /\ users[u].exists
    /\ users' = save_user(users, u,
           [users[u] EXCEPT !.waiting_for_comment = TRUE,
                            !.comment_post_id = post_id,
                            !.comment_idx = comment_idx])
    /\ intent' = [intent EXCEPT ![u] =
           [kind |-> "comment", post_id |-> post_id, parent |-> <<comment_idx>>]]
    /\ outcome' = "type_reply"
    /\ request' = NoRequest
    /\ UNCHANGED <<followers, listing, tasks, variant, posts, comments, reactions, channel>>

(* replytoreply_<post id>_<comment index>_<reply index>, lines 2273-2301 *)
button_replytoreply_json(u, post_id, comment_idx, reply_idx) ==
    /\ variant = "json"
    /\ Idle
    /\ users[u].exists
    /\ users' = save_user(users, u,
           [users[u] EXCEPT !.waiting_for_comment = TRUE,
                            !.comment_post_id = post_id,
                            !.comment_idx = comment_idx,
                            !.reply_idx = reply_idx])
    /\ intent' = [intent EXCEPT ![u] =
           [kind |-> "comment", post_id |-> post_id,
            parent |-> <<comment_idx, reply_idx>>]]
    /\ outcome' = "type_reply"
    /\ request' = NoRequest
    /\ UNCHANGED <<followers, listing, tasks, variant, posts, comments, reactions, channel>>

(* replytonested_<post id>_<comment>_<reply>_<nested>, lines 2303-2336 *)
button_replytonested_json(u, post_id, comment_idx, reply_idx, nested_idx) ==
    /\ variant = "json"
    /\ Idle
    /\ users[u].exists
    /\ users' = save_user(users, u,
           [users[u] EXCEPT !.waiting_for_comment = TRUE,
                            !.comment_post_id = post_id,
                            !.comment_idx = comment_idx,
                            !.reply_idx = reply_idx,
                            !.nested_idx = nested_idx])
    /\ intent' = [intent EXCEPT ![u] =
           [kind |-> "comment", post_id |-> post_id,
            parent |-> <<comment_idx, reply_idx, nested_idx>>]]
    /\ outcome' = "type_reply"
    /\ request' = NoRequest
    /\ UNCHANGED <<followers, listing, tasks, variant, posts, comments, reactions, channel>>

----------------------------------------------------------------------------
(* Nested-JSON variant: handle_message, lines 2341-2686 *)

(* "Clear reply mode", lines 2535-2541 *)
ClearReplyMode(row) ==
    [row EXCEPT !.waiting_for_comment = FALSE,
                !.comment_post_id = NULL,
                !.comment_idx = NULL,
                !.reply_idx = NULL,
                !.nested_idx = NULL]

(* A validation outcome: the handler returns before any write. *)
Rejected(u, reply) ==
    /\ outcome' = reply
    /\ request' = NoRequest
    /\ UNCHANGED <<users, posts, comments, reactions, channel>>

(* Stored with the counter update outside try/except: a failure of the     *)
(* update ends the handler before the state clear.                         *)
Stored_update_unguarded(u, post_id, new_comments, reply, net, net2) ==
    /\ posts' = [posts EXCEPT ![post_id].comments = new_comments]
    /\ channel' = edit_counter(channel, posts[post_id].channel_message_id,
                               post_id,
                               count_all_comments_json(new_comments), net)
    /\ users' = IF net = "failed" THEN users
                ELSE save_user(users, u, ClearReplyMode(users[u]))
    /\ outcome' = IF net = "failed" THEN "error" ELSE reply
    /\ request' = EditRequest(posts[post_id].channel_message_id,
                              count_all_comments_json(new_comments))
    /\ UNCHANGED <<comments, reactions>>

(* update_post, the reply to the user, the counter update and the state    *)
(* clear that end every branch that stored something.  A reply is          *)
(* answered before the counter update (lines 2394, 2436, 2470), a          *)
(* top-level comment after it (line 2531); when that reply_text raises     *)
(* (net2 = "reply_failed") the handler ends there, before the state clear  *)
(* of lines 2535-2541.                                                     *)
Stored(u, post_id, new_comments, reply, net, net2) ==
    /\ posts' = [posts EXCEPT ![post_id].comments = new_comments]
    /\ IF net2 = "reply_failed" /\ reply = "reply_added"
       THEN /\ channel' = channel
            /\ request' = NoRequest
       ELSE /\ channel' = edit_counter(channel,
                               posts[post_id].channel_message_id, post_id,
                               count_all_comments_json(new_comments), net)
            /\ request' = EditRequest(posts[post_id].channel_message_id,
                                      count_all_comments_json(new_comments))
    /\ IF net2 = "reply_failed"
       THEN /\ users' = users
            /\ outcome' = "error"
       ELSE /\ users' = save_user(users, u, ClearReplyMode(users[u]))
            /\ outcome' = reply
    /\ UNCHANGED <<comments, reactions>>

(* Comment branch, lines 2348-2542: the deepest index that is set decides  *)
(* where the message goes.  The reply to the user and the comments of the  *)
(* post as update_post writes them (unchanged when the message is          *)
(* rejected).                                                              *)
place_comment_json(user, cs, u, m) ==
    LET comment_idx == user.comment_idx
        reply_idx == user.reply_idx
        nested_idx == user.nested_idx
        rejected(reply) == [reply |-> reply, comments |-> cs]
    IN IF nested_idx # NULL THEN
            IF comment_idx >= Len(cs) THEN rejected("comment_not_found")
            ELSE IF reply_idx >= Len(At(cs, comment_idx).replies)
            THEN rejected("reply_not_found")
            ELSE IF nested_idx >=
                    Len(At(At(cs, comment_idx).replies, reply_idx).replies)
            THEN rejected("nested_not_found")
            ELSE [reply |-> "reply_added",
                  comments |->
                     [cs EXCEPT ![comment_idx + 1].replies[reply_idx + 1]
                                   .replies[nested_idx + 1].replies =
                                       Append(@, NewReply(u))]]
       ELSE IF reply_idx # NULL THEN
            IF comment_idx >= Len(cs) THEN rejected("comment_not_found")
            ELSE IF reply_idx >= Len(At(cs, comment_idx).replies)
            THEN rejected("reply_not_found")
            ELSE [reply |-> "reply_added",
                  comments |->
                     [cs EXCEPT ![comment_idx + 1].replies[reply_idx + 1]
                                   .replies = Append(@, NewReply(u))]]
       ELSE IF comment_idx # NULL THEN
            IF comment_idx >= Len(cs) THEN rejected("comment_not_found")
            ELSE [reply |-> "reply_added",
                  comments |->
                     [cs EXCEPT ![comment_idx + 1].replies =
                                       Append(@, NewReply(u))]]
       ELSE IF m.kind \notin SupportedKinds THEN rejected("unsupported")
            ELSE [reply |-> "comment_added",
                  comments |-> Append(cs, NewComment(u, m.kind))]

AddedReplies == {"comment_added", "reply_added"}

message_comment_json(u, m, net, net2) ==
    LET user == users[u]
        post_id == user.comment_post_id
    IN IF post_id \notin DOMAIN posts
       THEN net2 \in MessengerResults /\ Rejected(u, "post_not_found")
       ELSE LET placed == place_comment_json(user, posts[post_id].comments, u, m)
            IN IF placed.reply \in AddedReplies
               THEN Stored(u, post_id, placed.comments, placed.reply, net, net2)
               ELSE net2 \in MessengerResults /\ Rejected(u, placed.reply)

(* Name branch, lines 2582-2593 *)
message_name_json(u, m) ==
    LET new_name == strip(MessageText(m))
    IN /\ IF new_name # <<>> /\ Len(new_name) <= MaxNameLen
          THEN /\ users' = save_user(users, u,
                      [users[u] EXCEPT !.anonymous_name = new_name,
                                       !.awaiting_name = FALSE])
               /\ outcome' = "name_updated"
               /\ request' = NoRequest
          ELSE /\ users' = users
               /\ outcome' = "name_invalid"
               /\ request' = NoRequest
       /\ UNCHANGED <<posts, comments, reactions, channel>>

(* Post branch, lines 2596-2686: the channel message is sent with a        *)
(* placeholder link, the post row is created with its message id, then     *)
(* the button is edited to link to the new post id and the user is told    *)
(* "posted"; an exception of any of these is answered "Failed to post"     *)
(* (lines 2683-2685).                                                      *)
message_post_json(u, m, net, net2) ==
    LET user == users[u]
        post_id == Len(posts) + 1
        message_id == Len(channel) + 1
    IN /\ users' = save_user(users, u,
              [user EXCEPT !.waiting_for_post = FALSE,
                           !.selected_category = "NULL"])
       /\ IF net = "ok"
          THEN /\ posts' = Append(posts,
                      [author_id |-> u, category |-> user.selected_category,
                       channel_message_id |-> message_id, comments |-> <<>>])
               /\ IF net2 \in {"ok", "reply_failed"}
                  THEN /\ channel' = Append(channel,
                              [count |-> 0, post_id |-> post_id, failed |-> FALSE])
                       /\ outcome' = IF net2 = "ok" THEN "posted"
                                     ELSE "post_failed"
                       /\ request' = EditRequest(message_id, 0)
                  ELSE /\ channel' = Append(channel,
                              [count |-> 0, post_id |-> 0, failed |-> TRUE])
                       /\ outcome' = "post_failed"
                       /\ request' = EditRequest(message_id, 0)
          ELSE /\ outcome' = "post_failed"
               /\ request' = NoRequest
               /\ UNCHANGED <<posts, channel>>
       /\ UNCHANGED <<comments, reactions>>

handle_message_json(u, m, net, net2) ==
    /\ variant = "json"
    /\ Idle
    /\ users[u].exists
    /\ net \in MessengerResults
    /\ \/ net2 \in MessengerResults
       \/ users[u].waiting_for_comment
       \/ /\ net = "ok"
          /\ MessageText(m) \notin MenuTexts
          /\ ~users[u].awaiting_name
          /\ users[u].waiting_for_post
    /\ IF users[u].waiting_for_comment
       THEN message_comment_json(u, m, net, net2)
       ELSE IF MessageText(m) \in MenuTexts THEN message_idle(u, m)
       ELSE IF users[u].awaiting_name THEN message_name_json(u, m)
       ELSE IF users[u].waiting_for_post THEN message_post_json(u, m, net, net2)
       ELSE message_idle(u, m)
    /\ intent' = [intent EXCEPT ![u] = NoIntent]
    /\ UNCHANGED <<followers, listing, tasks, variant>>

----------------------------------------------------------------------------
(* Nested-JSON variant: reactions *)

(* list.remove(x): the first occurrence goes. *)
RECURSIVE Remove(_, _)
Remove(list, x) ==
    IF list = <<>> THEN <<>>
    ELSE IF Head(list) = x THEN Tail(list)
    ELSE <<Head(list)>> \o Remove(Tail(list), x)

In(x, list) == \E i \in DOMAIN list : list[i] = x

(* "Remove from dislikes if present", "Toggle like" (lines 2068-2076) *)
toggle_like_json(node, u) ==
    LET dislikes == IF In(u, node.dislikes) THEN Remove(node.dislikes, u)
                    ELSE node.dislikes
        likes == IF In(u, node.likes) THEN Remove(node.likes, u)
                 ELSE Append(node.likes, u)
    IN [node EXCEPT !.likes = likes, !.dislikes = dislikes]

(* A dislike toggle that would forget "Remove from likes if present". *)
toggle_dislike_json_keeping_like(node, u) ==
    [node EXCEPT !.dislikes = IF In(u, node.dislikes) THEN Remove(node.dislikes, u)
                              ELSE Append(node.dislikes, u)]

(* "Remove from likes if present", "Toggle dislike" (lines 2079-2087) *)
toggle_dislike_json(node, u) ==
    LET likes == IF In(u, node.likes) THEN Remove(node.likes, u)
                 ELSE node.likes
        dislikes == IF In(u, node.dislikes) THEN Remove(node.dislikes, u)
                    ELSE Append(node.dislikes, u)
    IN [node EXCEPT !.likes = likes, !.dislikes = dislikes]

(* The if / elif on the callback prefix (startswith) of the three          *)
(* reaction handlers.                                                      *)
toggle_json(node, u, data, like, dislike) ==
    IF StartsWith(like, data) THEN toggle_like_json(node, u)
    ELSE IF StartsWith(dislike, data) THEN toggle_dislike_json(node, u)
    ELSE node

(* Reactions stored in a list of comments / in all posts. *)
RECURSIVE ReactionsIn(_)
ReactionsIn(cs) ==
    IF cs = <<>> THEN 0
    ELSE Len(Head(cs).likes) + Len(Head(cs).dislikes)
         + ReactionsIn(Head(cs).replies) + ReactionsIn(Tail(cs))

RECURSIVE ReactionsJson(_)
ReactionsJson(ps) ==
    IF ps = <<>> THEN 0
    ELSE ReactionsIn(Head(ps).comments) + ReactionsJson(Tail(ps))

(* Reacted with update_post writing the whole row back from a dict that    *)
(* carries no channel_message_id.                                          *)
Reacted_rewriting_row(u, post_id, new_comments) ==
    /\ posts' = [posts EXCEPT ![post_id] =
                    [@ EXCEPT !.comments = new_comments,
                              !.channel_message_id = NULL]]
    /\ outcome' = "counts"
    /\ request' = NoRequest
    /\ UNCHANGED <<users, comments, reactions, channel>>

(* update_post and the refreshed keyboard that end a reaction handler. *)
Reacted(u, post_id, new_comments) ==
    /\ posts' = [posts EXCEPT ![post_id].comments = new_comments]
    /\ outcome' = "counts"
    /\ request' = NoRequest
    /\ UNCHANGED <<users, comments, reactions, channel>>

(* likecomment_<post>_<idx> / dislikecomment_<post>_<idx>, lines 2050-2106 *)
button_likecomment_json(u, data, post_id, comment_idx) ==
    /\ variant = "json"
    /\ Idle
    /\ users[u].exists
    /\ StartsWith(LIKECOMMENT, data) \/ StartsWith(DISLIKECOMMENT, data)
    /\ IF post_id \notin DOMAIN posts THEN Rejected(u, "post_not_found")
       ELSE LET cs == posts[post_id].comments IN
            IF comment_idx >= Len(cs) THEN Rejected(u, "comment_not_found")
            ELSE Reacted(u, post_id,
                     [cs EXCEPT ![comment_idx + 1] =
                         toggle_json(@, u, data, LIKECOMMENT, DISLIKECOMMENT)])
    /\ UNCHANGED <<followers, listing, tasks, variant, intent>>

(* likereply_ / dislikereply_<post>_<idx>_<reply idx>, lines 2108-2172 *)
button_likereply_json(u, data, post_id, comment_idx, reply_idx) ==
    /\ variant = "json"
    /\ Idle
    /\ users[u].exists
    /\ StartsWith(LIKEREPLY, data) \/ StartsWith(DISLIKEREPLY, data)
    /\ IF post_id \notin DOMAIN posts THEN Rejected(u, "post_not_found")
       ELSE LET cs == posts[post_id].comments IN
            IF comment_idx >= Len(cs) THEN Rejected(u, "comment_not_found")
            ELSE IF reply_idx >= Len(At(cs, comment_idx).replies)
            THEN Rejected(u, "reply_not_found")
            ELSE Reacted(u, post_id,
                     [cs EXCEPT ![comment_idx + 1].replies[reply_idx + 1] =
                         toggle_json(@, u, data, LIKEREPLY, DISLIKEREPLY)])
    /\ UNCHANGED <<followers, listing, tasks, variant, intent>>

(* likenested_ / dislikenested_<post>_<idx>_<reply>_<nested>, 2174-2246 *)
button_likenested_json(u, data, post_id, comment_idx, reply_idx, nested_idx) ==
    /\ variant = "json"
    /\ Idle
    /\ users[u].exists
    /\ StartsWith(LIKENESTED, data) \/ StartsWith(DISLIKENESTED, data)
    /\ IF post_id \notin DOMAIN posts THEN Rejected(u, "post_not_found")
       ELSE LET cs == posts[post_id].comments IN
            IF comment_idx >= Len(cs) THEN Rejected(u, "comment_not_found")
            ELSE IF reply_idx >= Len(At(cs, comment_idx).replies)
            THEN Rejected(u, "reply_not_found")
            ELSE IF nested_idx >=
                    Len(At(At(cs, comment_idx).replies, reply_idx).replies)
            THEN Rejected(u, "nested_not_found")
            ELSE Reacted(u, post_id,
                     [cs EXCEPT ![comment_idx + 1].replies[reply_idx + 1]
                                   .replies[nested_idx + 1] =
                         toggle_json(@, u, data, LIKENESTED, DISLIKENESTED)])
    /\ UNCHANGED <<followers, listing, tasks, variant, intent>>

(* Callback data rendered by viewcomments, lines 1911-2020 and 1533-1640:  *)
(* every comment, every reply of a comment and every reply of such a       *)
(* reply gets a Reply button carrying its indexes.                         *)
WriteCommentButtons_json == DOMAIN posts

(* List indexes a callback can carry. *)
Indexes ==
    IF variant # "json" THEN {} ELSE 0..(StoredJson(posts) - 1)

ReplyButtons_json ==
    IF variant # "json" THEN {}
    ELSE {b \in (DOMAIN posts) \X Indexes : b[2] < Len(posts[b[1]].comments)}

ReplyToReplyButtons_json ==
    {b \in ReplyButtons_json \X Indexes :
        b[2] < Len(At(posts[b[1][1]].comments, b[1][2]).replies)}

ReplyToNestedButtons_json ==
    {b \in ReplyToReplyButtons_json \X Indexes :
        b[2] < Len(At(At(posts[b[1][1][1]].comments, b[1][1][2]).replies,
                      b[1][2]).replies)}

(* Like / dislike buttons sit on the same messages as the Reply buttons. *)
LikeCommentButtons_rel == {b[2] : b \in ReplyButtons_rel}
LikeReplyButtons_rel == {b[2] : b \in ReplyToReplyButtons_rel}

(* The comments a reaction handler ran on: the handler ends by inserting   *)
(* a row for the comment (lines 818-822, 866-870), and a row only leaves   *)
(* the table when the next one of its user and comment is inserted.        *)
Reacted_rel == {reactions[i].comment_id : i \in DOMAIN reactions}

(* The keyboard the reaction handlers put on the message of the comment    *)
(* (lines 841-848, 889-896): its Reply button carries reply_<comment id>,  *)
(* replytoreply_<comment id> under a reply.  The ids of each button.       *)
RebuiltReplyButtons_rel ==
    {<<c>> : c \in LikeCommentButtons_rel \cap Reacted_rel}

RebuiltReplyToReplyButtons_rel ==
    {<<c>> : c \in LikeReplyButtons_rel \cap Reacted_rel}

----------------------------------------------------------------------------
(* The profile: sex and followers *)

(* Callback data of the two buttons edit_sex renders (lines 613-616) and   *)
(* the needle of the test on them (line 620).                              *)
MALE == <<"m", "a", "l", "e">>
SEX_MALE == <<"s", "e", "x", "_">> \o MALE
SEX_FEMALE == <<"s", "e", "x", "_", "f", "e">> \o MALE

(* sex = male symbol if 'male' in query.data else female symbol *)
sex_of(data) == IF Contains(MALE, data) THEN SexMale ELSE SexFemale

(* sex_<option>, lines 619-626 *)
button_sex_rel(u, data) ==
    /\ variant = "relational"
    /\ Idle
    /\ users[u].exists
    /\ users' = UpdateUser(users, u, [users[u] EXCEPT !.sex = sex_of(data)])
    /\ outcome' = "sex_updated"
    /\ request' = NoRequest
    /\ UNCHANGED <<followers, listing, tasks, variant, posts, comments,
                   reactions, channel, intent>>

(* sex_<option>, lines 1861-1866 *)
button_sex_json(u, data) ==
    /\ variant = "json"
    /\ Idle
    /\ users[u].exists
    /\ users' = save_user(users, u, [users[u] EXCEPT !.sex = sex_of(data)])
    /\ outcome' = "sex_updated"
    /\ request' = NoRequest
    /\ UNCHANGED <<followers, listing, tasks, variant, posts, comments,
                   reactions, channel, intent>>

(* The two star symbols, code point by code point: the full star is       *)
(* U+2B50 followed by the variation selector U+FE0F, the empty star is     *)
(* U+2606 (lines 205-206, 1441-1442).                                      *)
FULL_STAR == <<"U+2B50", "U+FE0F">>
EMPTY_STAR == <<"U+2606">>

(* The default of max_stars (lines 204, 1440). *)
MAX_STARS == 5

(* Python's str * int: the empty string for a count of 0 or less. *)
RECURSIVE Times(_, _)
Times(str, n) == IF n <= 0 THEN <<>> ELSE str \o Times(str, n - 1)

Min(a, b) == IF a < b THEN a ELSE b
Max(a, b) == IF a > b THEN a ELSE b

(* A format_stars that would not cap the full stars at max_stars. *)
format_stars_uncapped(rating, max_stars) ==
    Times(FULL_STAR, rating) \o Times(EMPTY_STAR, Max(0, max_stars - rating))

(* format_stars(rating, max_stars=5), lines 204-207, 1440-1443 *)
format_stars(rating, max_stars) ==
    Times(FULL_STAR, Min(rating, max_stars))
        \o Times(EMPTY_STAR, Max(0, max_stars - rating))

(* 'profile', lines 580-581 and send_updated_profile, lines 508-538: the   *)
(* rating and its stars are part of the message sent.                      *)
button_profile_rel(u) ==
    /\ variant = "relational"
    /\ Idle
    /\ users[u].exists
    /\ LET rating == calculate_user_rating_rel(posts, comments, u)
       IN listing' = <<[rating |-> rating,
                        stars |-> format_stars(rating, MAX_STARS)]>>
    /\ outcome' = "profile"
    /\ request' = NoRequest
    /\ UNCHANGED <<followers, tasks, variant, users, posts, comments,
                   reactions, channel, intent>>

(* 'profile', lines 1824-1825 and send_updated_profile, lines 1756-1780 *)
button_profile_json(u) ==
    /\ variant = "json"
    /\ Idle
    /\ users[u].exists
    /\ LET rating == calculate_user_rating_json(posts, u)
       IN listing' = <<[rating |-> rating,
                        stars |-> format_stars(rating, MAX_STARS)]>>
    /\ outcome' = "profile"
    /\ request' = NoRequest
    /\ UNCHANGED <<followers, tasks, variant, users, posts, comments,
                   reactions, channel, intent>>

(* Callback data prefixes of the follow buttons of a profile. *)
FOLLOW == <<"f", "o", "l", "l", "o", "w", "_">>
UNFOLLOW == <<"u", "n">> \o FOLLOW

(* INSERT INTO followers without the PRIMARY KEY of the table. *)
insert_follower_no_key(fs, row) == Append(fs, row)

(* INSERT INTO followers under PRIMARY KEY (follower_id, followed_id),     *)
(* lines 45-50: a second row for the pair raises IntegrityError, which     *)
(* the handler passes over (lines 636-637).                                *)
insert_follower(fs, row) ==
    IF \E i \in DOMAIN fs : fs[i] = row THEN fs ELSE Append(fs, row)

(* DELETE FROM followers WHERE follower_id = ? AND followed_id = ? *)
delete_follower(fs, row) ==
    LET Keep(r) == r # row
    IN SelectSeq(fs, Keep)

(* follow_<user id> / unfollow_<user id>, lines 628-644 *)
button_follow_rel(u, data, target_uid) ==
    /\ variant = "relational"
    /\ Idle
    /\ users[u].exists
    /\ StartsWith(FOLLOW, data) \/ StartsWith(UNFOLLOW, data)
    /\ LET row == [follower_id |-> u, followed_id |-> target_uid]
       IN followers' = IF StartsWith(FOLLOW, data)
                       THEN insert_follower(followers, row)
                       ELSE delete_follower(followers, row)
    /\ outcome' = "follow_updated"
    /\ request' = NoRequest
    /\ UNCHANGED <<listing, tasks, variant, users, posts, comments,
                   reactions, channel, intent>>

(* The dict get_user(target_uid) or {} is saved from: the row, or a row    *)
(* of None and zeros, the empty name standing for None.                    *)
SexNull == "NULL"

NoneRow ==
    [NewUserRow EXCEPT !.anonymous_name = <<>>, !.sex = SexNull]

(* follow_<user id> / unfollow_<user id>, lines 1868-1881: the list of     *)
(* followers is kept in the row of the followed user.                      *)
button_follow_json(u, data, target_uid) ==
    /\ variant = "json"
    /\ Idle
    /\ users[u].exists
    /\ StartsWith(FOLLOW, data) \/ StartsWith(UNFOLLOW, data)
    /\ LET target_user == IF users[target_uid].exists THEN users[target_uid]
                          ELSE NoneRow
           listed == target_user.followers
           new_followers ==
               IF StartsWith(FOLLOW, data)
               THEN IF In(u, listed) THEN listed ELSE Append(listed, u)
               ELSE IF In(u, listed) THEN Remove(listed, u) ELSE listed
       IN users' = save_user(users, target_uid,
                       [target_user EXCEPT !.followers = new_followers])
    /\ outcome' = "follow_updated"
    /\ request' = NoRequest
    /\ UNCHANGED <<followers, listing, tasks, variant, posts, comments,
                   reactions, channel, intent>>

----------------------------------------------------------------------------
(* viewcomments_<post id>: the comment messages the handler sends *)

(* SELECT * FROM comments WHERE post_id = ? AND parent_comment_id = 0      *)
(* (lines 655-658): the ids of the rows from `i` on.  The query has no     *)
(* ORDER BY and the table has no index but its INTEGER PRIMARY KEY, so     *)
(* the rows come in the order of the table scan, by ascending comment_id.  *)
RECURSIVE top_level_rows(_, _, _)
top_level_rows(cs, post_id, i) ==
    IF i > Len(cs) THEN <<>>
    ELSE (IF cs[i].post_id = post_id /\ cs[i].parent_comment_id = 0
          THEN <<i>> ELSE <<>>)
         \o top_level_rows(cs, post_id, i + 1)

(* SELECT * FROM comments WHERE parent_comment_id = ? (lines 728-731),     *)
(* whatever the post of the row.                                           *)
RECURSIVE reply_rows(_, _, _)
reply_rows(cs, comment_id, i) ==
    IF i > Len(cs) THEN <<>>
    ELSE (IF cs[i].parent_comment_id = comment_id THEN <<i>> ELSE <<>>)
         \o reply_rows(cs, comment_id, i + 1)

(* A comment message: `at` is the comment it shows (relational: the id of  *)
(* the top-level comment, then the id of the reply; nested JSON: the list  *)
(* indexes), `likes` and `dislikes` the counts on its buttons.             *)
Sent_rel(rs, at) ==
    [at |-> at,
     likes |-> reaction_count_rel(rs, at[Len(at)], "like"),
     dislikes |-> reaction_count_rel(rs, at[Len(at)], "dislike")]

Sent_json(node, at) ==
    [at |-> at, likes |-> Len(node.likes), dislikes |-> Len(node.dislikes)]

(* The loops of lines 677-779: each top-level comment, followed by the     *)
(* rows whose parent it is.                                                *)
RECURSIVE view_rel(_, _, _)
view_rel(cs, rs, tops) ==
    IF tops = <<>> THEN <<>>
    ELSE LET c == Head(tops)
             replies == reply_rows(cs, c, 1)
         IN <<Sent_rel(rs, <<c>>)>>
            \o [k \in 1..Len(replies) |-> Sent_rel(rs, <<c, replies[k]>>)]
            \o view_rel(cs, rs, Tail(tops))

(* The loops of lines 1911-2022 over enumerate(comments), the replies of   *)
(* each comment and the replies of each reply, from index `i` on.          *)
RECURSIVE view_nested_json(_, _, _)
view_nested_json(list, at, i) ==
    IF i >= Len(list) THEN <<>>
    ELSE <<Sent_json(At(list, i), at \o <<i>>)>>
         \o view_nested_json(list, at, i + 1)

RECURSIVE view_replies_json(_, _, _)
view_replies_json(list, at, i) ==
    IF i >= Len(list) THEN <<>>
    ELSE <<Sent_json(At(list, i), at \o <<i>>)>>
         \o view_nested_json(At(list, i).replies, at \o <<i>>, 0)
         \o view_replies_json(list, at, i + 1)

RECURSIVE view_json(_, _)
view_json(cs, i) ==
    IF i >= Len(cs) THEN <<>>
    ELSE <<Sent_json(At(cs, i), <<i>>)>>
         \o view_replies_json(At(cs, i).replies, <<i>>, 0)
         \o view_json(cs, i + 1)

(* viewcomments_<post id>, lines 645-784 *)
button_viewcomments_rel(u, post_id) ==
    /\ variant = "relational"
    /\ Idle
    /\ users[u].exists
    /\ IF post_id \notin DOMAIN posts
       THEN outcome' = "post_not_found" /\ listing' = <<>>
       ELSE LET tops == top_level_rows(comments, post_id, 1)
            IN IF tops = <<>>
               THEN outcome' = "no_comments" /\ listing' = <<>>
               ELSE /\ outcome' = "comments"
                    /\ listing' = view_rel(comments, reactions, tops)
    /\ request' = NoRequest
    /\ UNCHANGED <<followers, tasks, variant, users, posts, comments,
                   reactions, channel, intent>>

(* viewcomments_<post id>, lines 1882-2027 *)
button_viewcomments_json(u, post_id) ==
    /\ variant = "json"
    /\ Idle
    /\ users[u].exists
    /\ IF post_id \notin DOMAIN posts
       THEN outcome' = "post_not_found" /\ listing' = <<>>
       ELSE IF posts[post_id].comments = <<>>
       THEN outcome' = "no_comments" /\ listing' = <<>>
       ELSE /\ outcome' = "comments"
            /\ listing' = view_json(posts[post_id].comments, 0)
    /\ request' = NoRequest
    /\ UNCHANGED <<followers, tasks, variant, users, posts, comments,
                   reactions, channel, intent>>

(* start(), the loops of lines 298-398 of the viewcomments_ deep link:     *)
(* each top-level comment is sent, then the rows whose parent it is.  The  *)
(* message of a reply is built from reply_author_text (line 394), a name   *)
(* start() never binds: the first reply raises NameError, after the        *)
(* messages sent so far.                                                   *)
RECURSIVE start_view_rel(_, _, _)
start_view_rel(cs, rs, tops) ==
    IF tops = <<>> THEN [sent |-> <<>>, raised |-> FALSE]
    ELSE LET c == Head(tops)
             replies == reply_rows(cs, c, 1)
             rest == start_view_rel(cs, rs, Tail(tops))
         IN IF replies # <<>>
            THEN [sent |-> <<Sent_rel(rs, <<c>>)>>, raised |-> TRUE]
            ELSE [sent |-> <<Sent_rel(rs, <<c>>)>> \o rest.sent,
                  raised |-> rest.raised]

(* start(), the loops of lines 1532-1640 of the viewcomments_ deep link    *)
(* over enumerate(comments), the replies of each comment and the replies   *)
(* of each reply: the nodes are visited in the order of the button's       *)
(* loops.  Before a node is sent, the name of its author goes through      *)
(* escape_markdown (lines 1549, 1581, 1618), which raises TypeError for    *)
(* the None of a row that follow_ created: the handler stops after the     *)
(* messages sent so far.  An author without a row is shown as "Unknown".   *)
start_view_json(us, cs) ==
    LET all == view_json(cs, 0)
        author(k) ==
            LET node == NodeAt(cs, all[k].at)
            IN IF Len(all[k].at) = 1 THEN node.author_id ELSE node.user_id
        raises == {k \in DOMAIN all :
                      /\ us[author(k)].exists
                      /\ us[author(k)].anonymous_name = <<>>}
    IN IF raises = {} THEN [sent |-> all, raised |-> FALSE]
       ELSE LET first == CHOOSE k \in raises : \A j \in raises : k <= j
            IN [sent |-> SubSeq(all, 1, first - 1), raised |-> TRUE]

(* start() with the deep link viewcomments_<post id>, lines 220-231 and    *)
(* 267-399: the row is created on first contact; an exception of the       *)
(* handler goes to the error handler, which logs it (lines 1149-1150).     *)
start_viewcomments_rel(u, post_id) ==
    /\ variant = "relational"
    /\ Idle
    /\ users' = IF users[u].exists THEN users
                ELSE [users EXCEPT ![u] = NewUserRow]
    /\ IF post_id \notin DOMAIN posts
       THEN outcome' = "post_not_found" /\ listing' = <<>>
       ELSE LET tops == top_level_rows(comments, post_id, 1)
                view == start_view_rel(comments, reactions, tops)
            IN IF tops = <<>>
               THEN outcome' = "no_comments" /\ listing' = <<>>
               ELSE /\ outcome' = IF view.raised THEN "error" ELSE "comments"
                    /\ listing' = view.sent
    /\ request' = NoRequest
    /\ UNCHANGED <<followers, tasks, variant, posts, comments, reactions,
                   channel, intent>>

(* start() with the deep link viewcomments_<post id>, lines 1457-1470 and  *)
(* 1505-1641                                                               *)
start_viewcomments_json(u, post_id) ==
    /\ variant = "json"
    /\ Idle
    /\ users' = IF users[u].exists THEN users
                ELSE save_user(users, u, NewUserRow)
    /\ IF post_id \notin DOMAIN posts
       THEN outcome' = "post_not_found" /\ listing' = <<>>
       ELSE IF posts[post_id].comments = <<>>
       THEN outcome' = "no_comments" /\ listing' = <<>>
       ELSE LET view == start_view_json(users, posts[post_id].comments)
            IN /\ outcome' = IF view.raised THEN "error" ELSE "comments"
               /\ listing' = view.sent
    /\ request' = NoRequest
    /\ UNCHANGED <<followers, tasks, variant, posts, comments, reactions,
                   channel, intent>>

----------------------------------------------------------------------------
(* The comment branch and the like / dislike handler, from await to await *)

(* An update of user `u` arrives and waits in the update queue.  `overlap` *)
(* remembers that another update was waiting or being handled then.        *)
receive(u, upd) ==
    /\ users[u].exists
    /\ tasks[u].pc \in {"idle", "done"}
    /\ LET waiting == {v \in Users : tasks[v].pc \notin {"idle", "done"}}
       IN tasks' = [v \in Users |->
                      IF v = u
                      THEN [NoTask EXCEPT !.pc = "queued", !.update = upd,
                                          !.overlap = (waiting # {})]
                      ELSE IF v \in waiting
                      THEN [tasks[v] EXCEPT !.overlap = TRUE]
                      ELSE tasks[v]]
    /\ UNCHANGED <<followers, listing, variant, users, posts, comments, reactions, channel,
                   intent, outcome, request>>

(* The handler of `u` returns. *)
returned(u) == tasks' = [tasks EXCEPT ![u].pc = "done"]

(* handle_message, lines 953-1089: the branch is chosen, the comment row   *)
(* is inserted, the count and the channel message id are read; the         *)
(* handler then awaits edit_message_reply_markup.  The other branches run  *)
(* to their end.                                                           *)
begin_message_rel(u, net) ==
    /\ variant = "relational"
    /\ Idle
    /\ tasks[u].pc = "queued"
    /\ tasks[u].update.kind = "message"
    /\ IF net \in MessengerResults THEN TRUE ELSE users[u].waiting_for_post
    /\ LET m == tasks[u].update.m
           user == users[u]
           post_id == user.comment_post_id
           parent_comment_id ==
               IF Truthy(user.comment_idx) THEN user.comment_idx ELSE 0
           found == post_id \in DOMAIN posts
       IN IF user.waiting_for_post
          THEN message_post_rel(u, m, net) /\ returned(u)
          ELSE IF user.waiting_for_comment
          THEN IF m.kind \notin SupportedKinds
               THEN message_comment_rel(u, m, net) /\ returned(u)
               ELSE /\ comments' = Append(comments,
                           [post_id |-> post_id,
                            parent_comment_id |-> parent_comment_id,
                            author_id |-> u,
                            type |-> m.kind])
                    /\ tasks' = [tasks EXCEPT
                           ![u].pc = "editing",
                           ![u].post_id = post_id,
                           ![u].row_found = found,
                           ![u].message_id =
                               IF found THEN posts[post_id].channel_message_id
                               ELSE NULL,
                           ![u].total =
                               count_all_comments_rel(comments', post_id),
                           ![u].reply = "comment_added"]
                    /\ request' = NoRequest
                    /\ UNCHANGED <<users, posts, reactions, channel, outcome>>
          ELSE IF user.awaiting_name
          THEN message_name_rel(u, m) /\ returned(u)
          ELSE message_idle(u, m) /\ returned(u)
    /\ intent' = [intent EXCEPT ![u] = NoIntent]
    /\ UNCHANGED <<followers, listing, variant>>

(* handle_message, lines 2341-2530: get_post, the comment or reply is      *)
(* appended to the copy, update_post; a reply is answered at once, and     *)
(* when that reply_text raises (net2 = "reply_failed", lines 2394, 2436,   *)
(* 2470) the handler ends there: the reply is stored, no update of the     *)
(* counter is requested and the reply mode stays.  Otherwise the count is  *)
(* taken from the copy and the handler awaits edit_message_reply_markup.   *)
begin_message_json(u, net, net2) ==
    /\ variant = "json"
    /\ Idle
    /\ net \in MessengerResults
    /\ tasks[u].pc = "queued"
    /\ tasks[u].update.kind = "message"
    /\ IF net2 \in MessengerResults THEN TRUE
       ELSE /\ net = "ok"
            /\ \/ users[u].waiting_for_comment
               \/ /\ MessageText(tasks[u].update.m) \notin MenuTexts
                  /\ ~users[u].awaiting_name
                  /\ users[u].waiting_for_post
    /\ LET m == tasks[u].update.m
           user == users[u]
           post_id == user.comment_post_id
       IN IF user.waiting_for_comment
          THEN IF post_id \notin DOMAIN posts
               THEN message_comment_json(u, m, net, net2) /\ returned(u)
               ELSE LET placed == place_comment_json(
                                      user, posts[post_id].comments, u, m)
                    IN IF placed.reply \notin AddedReplies
                       THEN message_comment_json(u, m, net, net2) /\ returned(u)
                       ELSE IF net2 = "reply_failed"
                       THEN /\ placed.reply = "reply_added"
                            /\ posts' = [posts EXCEPT
                                   ![post_id].comments = placed.comments]
                            /\ outcome' = "error"
                            /\ request' = NoRequest
                            /\ tasks' = [tasks EXCEPT
                                   ![u].pc = "done",
                                   ![u].post_id = post_id,
                                   ![u].reply = "error"]
                            /\ UNCHANGED <<users, comments, reactions, channel>>
                       ELSE /\ posts' = [posts EXCEPT
                                   ![post_id].comments = placed.comments]
                            /\ outcome' = IF placed.reply = "reply_added"
                                          THEN "reply_added" ELSE outcome
                            /\ request' = NoRequest
                            /\ tasks' = [tasks EXCEPT
                                   ![u].pc = "editing",
                                   ![u].post_id = post_id,
                                   ![u].row_found = TRUE,
                                   ![u].message_id =
                                       posts[post_id].channel_message_id,
                                   ![u].total =
                                       count_all_comments_json(placed.comments),
                                   ![u].reply = placed.reply,
                                   ![u].user = user]
                            /\ UNCHANGED <<users, comments, reactions, channel>>
          ELSE IF MessageText(m) \in MenuTexts
          THEN message_idle(u, m) /\ returned(u)
          ELSE IF user.awaiting_name
          THEN message_name_json(u, m) /\ returned(u)
          ELSE IF user.waiting_for_post
          THEN message_post_json(u, m, net, net2) /\ returned(u)
          ELSE message_idle(u, m) /\ returned(u)
    /\ intent' = [intent EXCEPT ![u] = NoIntent]
    /\ UNCHANGED <<followers, listing, variant>>

(* The awaited edit_message_reply_markup, lines 1080-1089 and 2520-2530:   *)
(* the Messenger applies the request or rejects it.  When the lookup of    *)
(* the post row raised, nothing is requested.                              *)
request_edit(u, net) ==
    /\ tasks[u].pc = "editing"
    /\ net \in MessengerResults
    /\ IF tasks[u].row_found
       THEN /\ channel' = edit_counter(channel, tasks[u].message_id,
                                       tasks[u].post_id, tasks[u].total, net)
            /\ request' = EditRequest(tasks[u].message_id, tasks[u].total)
       ELSE /\ channel' = channel
            /\ request' = NoRequest
    /\ tasks' = [tasks EXCEPT
           ![u].pc = "edited",
           ![u].net = IF tasks[u].row_found
                         /\ tasks[u].message_id \in DOMAIN channel
                      THEN net ELSE "failed"]
    /\ UNCHANGED <<followers, listing, variant, users, posts, comments, reactions, intent, outcome>>

(* Lines 1091-1098: the comment state is cleared, the user is answered;    *)
(* when that reply_text raises (line 1097, outside any try) the handler    *)
(* ends in the error handler with the state cleared.                       *)
finish_comment_rel(u, net) ==
    /\ variant = "relational"
    /\ tasks[u].pc = "edited"
    /\ net \in {"ok", "reply_failed"}
    /\ users' = UpdateUser(users, u,
           [users[u] EXCEPT !.waiting_for_comment = FALSE,
                            !.comment_post_id = NULL,
                            !.comment_idx = NULL,
                            !.reply_idx = NULL,
                            !.nested_idx = NULL])
    /\ outcome' = IF net = "reply_failed" THEN "error" ELSE "comment_added"
    /\ tasks' = [tasks EXCEPT
           ![u].pc = "done",
           ![u].reply = IF net = "reply_failed" THEN "error" ELSE @]
    /\ UNCHANGED <<followers, listing, variant, posts, comments, reactions, channel, intent,
                   request>>

(* Lines 2532-2542: a comment is answered now (a reply was answered       *)
(* before the update of the counter); the row read at the start of the    *)
(* handler is then saved with the reply mode cleared.  When the reply_text *)
(* of line 2532 raises, the handler ends before the clear and save_user.   *)
finish_comment_json(u, net) ==
    /\ variant = "json"
    /\ tasks[u].pc = "edited"
    /\ net \in {"ok", "reply_failed"}
    /\ net = "reply_failed" => tasks[u].reply = "comment_added"
    /\ users' = IF net = "reply_failed" THEN users
                ELSE save_user(users, u, ClearReplyMode(tasks[u].user))
    /\ outcome' = IF net = "reply_failed" THEN "error"
                  ELSE IF tasks[u].reply = "comment_added"
                  THEN "comment_added" ELSE outcome
    /\ tasks' = [tasks EXCEPT
           ![u].pc = "done", ![u].user = NoUser, ![u].total = 0,
           ![u].reply = IF net = "reply_failed" THEN "error" ELSE @]
    /\ UNCHANGED <<followers, listing, variant, posts, comments, reactions, channel, intent,
                   request>>

(* button_handler, lines 540-543: the handler awaits query.answer() before *)
(* it looks at the callback data.                                          *)
begin_like_rel(u) ==
    /\ variant = "relational"
    /\ Idle
    /\ tasks[u].pc = "queued"
    /\ tasks[u].update.kind = "callback"
    /\ tasks' = [tasks EXCEPT ![u].pc = "answered"]
    /\ UNCHANGED <<followers, listing, variant, users, posts, comments,
                   reactions, channel, intent, outcome, request>>

(* likecomment_ / dislikecomment_, lines 808-854: the DELETE and the       *)
(* INSERT, with no await between them, the counts, the buttons of the      *)
(* message.                                                                *)
insert_like_rel(u) ==
    /\ variant = "relational"
    /\ tasks[u].pc = "answered"
    /\ reactions' = toggle_reaction_rel(reactions, tasks[u].update.target, u,
                                        tasks[u].update.data)
    /\ outcome' = "counts"
    /\ request' = NoRequest
    /\ tasks' = [tasks EXCEPT ![u].pc = "done", ![u].reply = "counts"]
    /\ UNCHANGED <<followers, listing, variant, users, posts, comments,
                   channel, intent>>

(* likecomment_ / dislikecomment_, lines 2050-2088: get_post, the checks,  *)
(* the toggle in the copy; the handler then awaits query.answer.           *)
begin_like_json(u) ==
    /\ variant = "json"
    /\ Idle
    /\ tasks[u].pc = "queued"
    /\ tasks[u].update.kind = "callback"
    /\ LET data == tasks[u].update.data
           post_id == tasks[u].update.target[1]
           comment_idx == tasks[u].update.target[2]
       IN IF post_id \notin DOMAIN posts
          THEN Rejected(u, "post_not_found") /\ returned(u)
          ELSE LET cs == posts[post_id].comments IN
               IF comment_idx >= Len(cs)
               THEN Rejected(u, "comment_not_found") /\ returned(u)
               ELSE /\ tasks' = [tasks EXCEPT
                           ![u].pc = "answering",
                           ![u].post_id = post_id,
                           ![u].prev = IF In(u, At(cs, comment_idx).likes)
                                       THEN "like"
                                       ELSE IF In(u, At(cs, comment_idx).dislikes)
                                       THEN "dislike" ELSE "none",
                           ![u].local =
                               [cs EXCEPT ![comment_idx + 1] =
                                   toggle_json(@, u, data,
                                               LIKECOMMENT, DISLIKECOMMENT)]]
                    /\ UNCHANGED <<users, posts, comments, reactions, channel,
                                   outcome, request>>
    /\ UNCHANGED <<followers, listing, variant, intent>>

(* Lines 2090-2106: update_post of the copy, the buttons of the message *)
write_like_json(u) ==
    /\ variant = "json"
    /\ tasks[u].pc = "answering"
    /\ Reacted(u, tasks[u].post_id, tasks[u].local)
    /\ tasks' = [tasks EXCEPT ![u].pc = "done", ![u].reply = "counts",
                              ![u].local = <<>>]
    /\ UNCHANGED <<followers, listing, variant, intent>>

(* button_handler, lines 540-543 and 1784-1788: the follow / unfollow      *)
(* callback is taken from the queue and the handler awaits query.answer(). *)
begin_follow(u) ==
    /\ Idle
    /\ tasks[u].pc = "queued"
    /\ tasks[u].update.kind = "callback"
    /\ tasks[u].update.data \in {FOLLOW, UNFOLLOW}
    /\ tasks' = [tasks EXCEPT ![u].pc = "answered"]
    /\ UNCHANGED <<followers, listing, variant, users, posts, comments,
                   reactions, channel, intent, outcome, request>>

(* follow_ / unfollow_, lines 628-644: the row of the pair is inserted or  *)
(* deleted.                                                                *)
write_follow_rel(u) ==
    /\ variant = "relational"
    /\ tasks[u].pc = "answered"
    /\ LET row == [follower_id |-> u, followed_id |-> tasks[u].update.target]
       IN followers' = IF tasks[u].update.data = FOLLOW
                       THEN insert_follower(followers, row)
                       ELSE delete_follower(followers, row)
    /\ outcome' = "follow_updated"
    /\ request' = NoRequest
    /\ tasks' = [tasks EXCEPT ![u].pc = "done", ![u].reply = "follow_updated"]
    /\ UNCHANGED <<listing, variant, users, posts, comments, reactions,
                   channel, intent>>

(* follow_ / unfollow_, lines 1868-1881: get_user of the followed user,    *)
(* the list changed, save_user of the whole row, with no await between     *)
(* them.                                                                   *)
write_follow_json(u) ==
    /\ variant = "json"
    /\ tasks[u].pc = "answered"
    /\ LET target_uid == tasks[u].update.target
           target_user == IF users[target_uid].exists THEN users[target_uid]
                          ELSE NoneRow
           listed == target_user.followers
           new_followers ==
               IF tasks[u].update.data = FOLLOW
               THEN IF In(u, listed) THEN listed ELSE Append(listed, u)
               ELSE IF In(u, listed) THEN Remove(listed, u) ELSE listed
       IN users' = save_user(users, target_uid,
                       [target_user EXCEPT !.followers = new_followers])
    /\ outcome' = "follow_updated"
    /\ request' = NoRequest
    /\ tasks' = [tasks EXCEPT ![u].pc = "done", ![u].reply = "follow_updated"]
    /\ UNCHANGED <<followers, listing, variant, posts, comments, reactions,
                   channel, intent>>

----------------------------------------------------------------------------
Init ==
    /\ variant \in {"relational", "json"}
    /\ users = [u \in Users |-> NoUser]
    /\ posts = <<>>
    /\ comments = <<>>
    /\ reactions = <<>>
    /\ channel = <<>>
    /\ intent = [u \in Users |-> NoIntent]
    /\ outcome = "none"
    /\ request = NoRequest
    /\ tasks = [u \in Users |-> NoTask]
    /\ followers = <<>>
    /\ listing = <<>>

(* A deep link is typed by the user: it may name any post id. *)
StartArgs ==
    {[link |-> "none"]} \cup
    {[link |-> "writecomment", post_id |-> p] : p \in 1..(Len(posts) + 1)}

(* The tables grow without limit; a specification explores the steps that  *)
(* leave at most P posts, C comments and replies, and T posts, comments    *)
(* and reactions together.                                                 *)
StoredComments ==
    IF variant = "relational" THEN Len(comments) ELSE StoredJson(posts)

StoredReactions ==
    IF variant = "relational" THEN Len(reactions) ELSE ReactionsJson(posts)

Bounded(P, C, T) ==
    /\ Len(posts') <= P
    /\ StoredComments' <= C
    /\ Len(posts') + StoredComments' + StoredReactions' <= T

(* /start of a user of `U`, with a deep-link argument of `A`. *)
NextStart(U, A) ==
    \/ \E u \in U, arg \in A : start_rel(u, arg)
    \/ \E u \in U, arg \in A : start_json(u, arg)

(* One step of posting, commenting or replying: any of these handlers, for *)
(* an update of a user of `U`, with a message of `M` and a Messenger       *)
(* result of `N`.                                                          *)
NextOf(U, M, N, P, C, T) ==
    \/ \E u \in U, c \in CATEGORIES : button_category_rel(u, c)
    \/ \E u \in U, p \in WriteCommentButtons_rel : button_writecomment_rel(u, p)
    \/ \E u \in U, b \in ReplyButtons_rel : button_reply_rel(u, b[1], b[2])
    \/ \E u \in U, b \in ReplyToReplyButtons_rel :
           button_replytoreply_rel(u, b[1][1], b[1][2], b[2])
    \/ \E u \in U, m \in M, net \in N :
           handle_message_rel(u, m, net) /\ Bounded(P, C, T)
    \/ \E u \in U, c \in CATEGORIES : button_category_json(u, c)
    \/ \E u \in U, p \in WriteCommentButtons_json : button_writecomment_json(u, p)
    \/ \E u \in U, b \in ReplyButtons_json : button_reply_json(u, b[1], b[2])
    \/ \E u \in U, b \in ReplyToReplyButtons_json :
           button_replytoreply_json(u, b[1][1], b[1][2], b[2])
    \/ \E u \in U, b \in ReplyToNestedButtons_json :
           button_replytonested_json(u, b[1][1][1], b[1][1][2], b[1][2], b[2])
    \/ \E u \in U, m \in M, net \in N, net2 \in N :
           handle_message_json(u, m, net, net2) /\ Bounded(P, C, T)

(* The profile handlers: the user asks to change the anonymous name. *)
NextProfile(U) ==
    \/ \E u \in U : button_edit_name_rel(u)
    \/ \E u \in U : button_edit_name_json(u)

(* The reaction handlers, for a callback query of a user of `U`. *)
NextReaction(U, T) ==
    \/ \E u \in U, d \in {LIKECOMMENT, DISLIKECOMMENT}, c \in LikeCommentButtons_rel :
           button_likecomment_rel(u, d, c) /\ Bounded(T, T, T)
    \/ \E u \in U, d \in {LIKEREPLY, DISLIKEREPLY}, c \in LikeReplyButtons_rel :
           button_likereply_rel(u, d, c) /\ Bounded(T, T, T)
    \/ \E u \in U, d \in {LIKECOMMENT, DISLIKECOMMENT}, b \in ReplyButtons_json :
           button_likecomment_json(u, d, b[1], b[2]) /\ Bounded(T, T, T)
    \/ \E u \in U, d \in {LIKEREPLY, DISLIKEREPLY}, b \in ReplyToReplyButtons_json :
           button_likereply_json(u, d, b[1][1], b[1][2], b[2])
               /\ Bounded(T, T, T)
    \/ \E u \in U, d \in {LIKENESTED, DISLIKENESTED}, b \in ReplyToNestedButtons_json :
           button_likenested_json(u, d, b[1][1][1], b[1][1][2], b[1][2], b[2])
               /\ Bounded(T, T, T)

(* Callback data the views did not render: button_handler takes the ids    *)
(* from query.data as they come (lines 808-809, 2050-2054).  The first    *)
(* comment id not stored; for each post and each rendered comment or       *)
(* reply the first index past its list; index 0 of the first post id not   *)
(* stored.                                                                 *)
UnrenderedComments_rel ==
    IF variant = "relational" THEN {Len(comments) + 1} ELSE {}

UnrenderedTargets_json ==
    IF variant # "json" THEN {}
    ELSE {<<Len(posts) + 1, <<0>>>>}
         \cup {<<p, <<Len(posts[p].comments)>>>> : p \in DOMAIN posts}
         \cup {<<b[1], <<b[2], Len(At(posts[b[1]].comments, b[2]).replies)>>>> :
                  b \in ReplyButtons_json}
         \cup {<<b[1][1],
                 <<b[1][2], b[2],
                   Len(At(At(posts[b[1][1]].comments, b[1][2]).replies,
                          b[2]).replies)>>>> :
                  b \in ReplyToReplyButtons_json}

NextUnrendered(U, T) ==
    \/ \E u \in U, d \in {LIKECOMMENT, DISLIKECOMMENT},
          c \in UnrenderedComments_rel :
           button_likecomment_rel(u, d, c) /\ Bounded(T, T, T)
    \/ \E u \in U, d \in {LIKEREPLY, DISLIKEREPLY},
          c \in UnrenderedComments_rel :
           button_likereply_rel(u, d, c) /\ Bounded(T, T, T)
    \/ \E u \in U, d \in {LIKECOMMENT, DISLIKECOMMENT},
          t \in UnrenderedTargets_json :
           /\ Len(t[2]) = 1
           /\ button_likecomment_json(u, d, t[1], t[2][1])
    \/ \E u \in U, d \in {LIKEREPLY, DISLIKEREPLY},
          t \in UnrenderedTargets_json :
           /\ Len(t[2]) = 2
           /\ button_likereply_json(u, d, t[1], t[2][1], t[2][2])
    \/ \E u \in U, d \in {LIKENESTED, DISLIKENESTED},
          t \in UnrenderedTargets_json :
           /\ Len(t[2]) = 3
           /\ button_likenested_json(u, d, t[1], t[2][1], t[2][2], t[2][3])

(* The category and write-comment buttons, handled on arrival: category   *)
(* for a user of `U`, write comment for a user of `V`.                     *)
NextCompose(U, V) ==
    \/ \E u \in U, c \in CATEGORIES : button_category_rel(u, c)
    \/ \E u \in V, p \in WriteCommentButtons_rel : button_writecomment_rel(u, p)
    \/ \E u \in U, c \in CATEGORIES : button_category_json(u, c)
    \/ \E u \in V, p \in WriteCommentButtons_json : button_writecomment_json(u, p)

(* Messages of users of `U` that pass through the update queue, and the    *)
(* steps of their handler.                                                 *)
NextMessages(U, M, N, P, T) ==
    \/ \E u \in U, m \in M : receive(u, [kind |-> "message", m |-> m])
    \/ \E u \in U, net \in N : begin_message_rel(u, net) /\ Bounded(P, T, T)
    \/ \E u \in U, net \in N, net2 \in N :
           begin_message_json(u, net, net2) /\ Bounded(P, T, T)
    \/ \E u \in U, net \in N : request_edit(u, net)
    \/ \E u \in U, net \in N : finish_comment_rel(u, net)
    \/ \E u \in U, net \in N : finish_comment_json(u, net)

(* Like / dislike callbacks of users of `U` that pass through the update   *)
(* queue, and the steps of their handler.                                  *)
NextLikes(U, T) ==
    \/ \E u \in U, d \in {LIKECOMMENT, DISLIKECOMMENT},
          c \in LikeCommentButtons_rel :
           receive(u, [kind |-> "callback", data |-> d, target |-> c])
    \/ \E u \in U, d \in {LIKECOMMENT, DISLIKECOMMENT},
          b \in ReplyButtons_json :
           receive(u, [kind |-> "callback", data |-> d, target |-> b])
    \/ \E u \in U : begin_like_rel(u)
    \/ \E u \in U : insert_like_rel(u) /\ Bounded(T, T, T)
    \/ \E u \in U : begin_like_json(u)
    \/ \E u \in U : write_like_json(u) /\ Bounded(T, T, T)

(* "View Profile", for a user of `U`. *)
NextStars(U) ==
    \/ \E u \in U : button_profile_rel(u)
    \/ \E u \in U : button_profile_json(u)

(* The Reply buttons of the keyboards the reaction handlers rebuilt, for a *)
(* user of `U`.                                                            *)
NextRebuilt(U) ==
    \/ \E u \in U, ids \in RebuiltReplyButtons_rel :
           button_reply_parts_rel(u, ids)
    \/ \E u \in U, ids \in RebuiltReplyToReplyButtons_rel :
           button_replytoreply_parts_rel(u, ids)

(* The sex buttons, for a user of `U`. *)
NextSex(U) ==
    \/ \E u \in U, d \in {SEX_MALE, SEX_FEMALE} : button_sex_rel(u, d)
    \/ \E u \in U, d \in {SEX_MALE, SEX_FEMALE} : button_sex_json(u, d)

(* The follow buttons of the profile of a user of `V`, for a user of `U`. *)
NextFollow(U, V) ==
    \/ \E u \in U, d \in {FOLLOW, UNFOLLOW}, t \in V : button_follow_rel(u, d, t)
    \/ \E u \in U, d \in {FOLLOW, UNFOLLOW}, t \in V : button_follow_json(u, d, t)

(* Follow / unfollow callbacks of users of `U` on the profile of a user of *)
(* `V` that pass through the update queue, and the steps of their handler. *)
NextFollowing(U, V) ==
    \/ \E u \in U, d \in {FOLLOW, UNFOLLOW}, t \in V :
           /\ users[u].exists
           /\ receive(u, [kind |-> "callback", data |-> d, target |-> t])
    \/ \E u \in U : begin_follow(u)
    \/ \E u \in U : write_follow_rel(u)
    \/ \E u \in U : write_follow_json(u)

(* The Reply buttons under comments, replies and nested replies, for a     *)
(* user of `U`.                                                            *)
NextReply(U) ==
    \/ \E u \in U, b \in ReplyButtons_rel : button_reply_rel(u, b[1], b[2])
    \/ \E u \in U, b \in ReplyToReplyButtons_rel :
           button_replytoreply_rel(u, b[1][1], b[1][2], b[2])
    \/ \E u \in U, b \in ReplyButtons_json : button_reply_json(u, b[1], b[2])
    \/ \E u \in U, b \in ReplyToReplyButtons_json :
           button_replytoreply_json(u, b[1][1], b[1][2], b[2])
    \/ \E u \in U, b \in ReplyToNestedButtons_json :
           button_replytonested_json(u, b[1][1][1], b[1][1][2], b[1][2], b[2])

(* The Reply button under a top-level comment, for a user of `U`. *)
NextReplyToComment(U) ==
    \/ \E u \in U, b \in ReplyButtons_rel : button_reply_rel(u, b[1], b[2])
    \/ \E u \in U, b \in ReplyButtons_json : button_reply_json(u, b[1], b[2])

(* A message of `M` from a user of `U`, handled on arrival, every          *)
(* Messenger call succeeding.                                              *)
NextPosted(U, M, P, C, T) ==
    \/ \E u \in U, m \in M : handle_message_rel(u, m, "ok") /\ Bounded(P, C, T)
    \/ \E u \in U, m \in M :
           handle_message_json(u, m, "ok", "ok") /\ Bounded(P, C, T)

(* "View Comments" of a user of `U`: the button is rendered by the         *)
(* comments_<post id> deep link for every post id that is stored; the      *)
(* handler takes any number (lines 647-653).                               *)
NextView(U) ==
    \/ \E u \in U, p \in 1..(Len(posts) + 1) : button_viewcomments_rel(u, p)
    \/ \E u \in U, p \in 1..(Len(posts) + 1) : button_viewcomments_json(u, p)

(* The viewcomments_<post id> deep link typed by a user of `U`: it may     *)
(* name any post id.                                                       *)
NextLinkView(U) ==
    \/ \E u \in U, p \in 1..(Len(posts) + 1) : start_viewcomments_rel(u, p)
    \/ \E u \in U, p \in 1..(Len(posts) + 1) : start_viewcomments_json(u, p)

(* Messages sent as a new name: no text, blanks, a text to trim, texts of  *)
(* MaxNameLen and MaxNameLen + 1 characters, a text of MaxNameLen          *)
(* characters between blanks, a caption, a text of the reply keyboard.     *)
Repeat(c, n) == [i \in 1..n |-> c]

NameMessages ==
    {[kind |-> "text", text |-> <<" ">>],
     [kind |-> "text", text |-> <<" ", "h", "i", " ">>],
     [kind |-> "text", text |-> Repeat("a", MaxNameLen)],
     [kind |-> "text", text |-> Repeat("a", MaxNameLen + 1)],
     [kind |-> "text", text |-> <<" ">> \o Repeat("b", MaxNameLen) \o <<" ">>],
     [kind |-> "photo", text |-> <<"c", "a", "p">>],
     [kind |-> "other", text |-> <<>>],
     [kind |-> "text", text |-> HELP]}

(* A message of `M` from a user of `U`, handled on arrival. *)
NextMessage(U, M) ==
    \/ \E u \in U, m \in M : handle_message_rel(u, m, "ok")
    \/ \E u \in U, m \in M : handle_message_json(u, m, "ok", "ok")

TextMessages == {m \in Messages : m.kind \in {"text", "other"}}
PlainText == {m \in Messages : m.kind = "text"}

(* One user posting, commenting, replying and renaming; every Messenger    *)
(* call succeeds.                                                          *)
Next ==
    \/ NextStart({"u1"}, StartArgs)
    \/ NextOf({"u1"}, TextMessages, {"ok"},
              MaxPosts, MaxComments, MaxPosts + MaxComments)
    \/ NextProfile({"u1"})

Spec == Init /\ [][Next]_vars

(* One user posting, commenting and replying; a Messenger call may fail. *)
NextMirror ==
    \/ NextStart({"u1"}, StartArgs)
    \/ NextOf({"u1"}, TextMessages, PostResults, MaxRows, MaxRows, MaxRows)

SpecMirror == Init /\ [][NextMirror]_vars

(* Reactions of two users on the threads one user writes. *)
NextReact ==
    \/ NextStart(Pair, {[link |-> "none"]})
    \/ NextOf({"u1"}, PlainText, {"ok"}, MaxStored, MaxStored, MaxStored)
    \/ NextReaction(Pair, MaxStored)

SpecReact == Init /\ [][NextReact]_vars

(* One user commenting, replying and reacting, also through callback data  *)
(* that names no stored comment.                                           *)
NextUnrenderedReact ==
    \/ NextStart({"u1"}, {[link |-> "none"]})
    \/ NextOf({"u1"}, PlainText, {"ok"}, MaxStored, MaxStored, MaxStored)
    \/ NextReaction({"u1"}, MaxStored)
    \/ NextUnrendered({"u1"}, MaxStored)

SpecUnrendered == Init /\ [][NextUnrenderedReact]_vars

(* A message of `M` from a user of `U` who is writing a post, handled on   *)
(* arrival while a Messenger call of the post branch fails: the send to    *)
(* the channel, the edit of the button or the answer to the user (lines    *)
(* 1005-1039, 2640-2686).                                                  *)
NextPostFailing(U, M, P) ==
    \/ \E u \in U, m \in M, net \in PostResults \ {"ok"} :
           /\ users[u].exists
           /\ users[u].waiting_for_post
           /\ handle_message_rel(u, m, net)
           /\ Len(posts') <= P
    \/ \E u \in U, m \in M, net \in MessengerResults, net2 \in PostResults :
           /\ users[u].exists
           /\ ~users[u].waiting_for_comment
           /\ ~users[u].awaiting_name
           /\ users[u].waiting_for_post
           /\ MessageText(m) \notin MenuTexts
           /\ net = "failed" \/ net2 # "ok"
           /\ handle_message_json(u, m, net, net2)
           /\ Len(posts') <= P

(* One user posting, commenting, replying, reacting, renaming, choosing a  *)
(* sex and following; the Messenger calls of the post branch may fail, so  *)
(* that a post row may be left without channel message id.                 *)
NextEvery ==
    \/ NextStart({"u1"}, {[link |-> "none"]})
    \/ NextOf({"u1"}, PlainText, {"ok"}, MaxThreads, MaxComments, MaxStored)
    \/ NextPostFailing({"u1"}, PlainText, MaxThreads)
    \/ NextProfile({"u1"})
    \/ NextSex({"u1"})
    \/ NextFollow({"u1"}, {"u2"})
    \/ NextReaction({"u1"}, MaxStored)

SpecEvery == Init /\ [][NextEvery]_vars

(* Two users commenting and replying on the post of one of them: their    *)
(* messages wait in the update queue and are handled step by step; every   *)
(* Messenger call of the handler may fail.                                 *)
NextQueue ==
    \/ NextStart(Pair, {[link |-> "none"]})
    \/ /\ \A u \in Users : tasks[u].pc # "queued"
       /\ NextCompose({"u1"}, Pair)
    \/ /\ \A u \in Users : tasks[u].pc # "queued"
       /\ NextReplyToComment({"u2"})
    \/ NextMessages(Pair, PlainText, PostResults, MaxThreads, MaxQueued + 1)

SpecQueue == Init /\ [][NextQueue]_vars

(* Two users reacting on the comments one of them wrote on a post: the     *)
(* messages and the like / dislike callbacks wait in the update queue and  *)
(* are handled step by step.                                               *)
NextToggle ==
    \/ NextStart(Pair, {[link |-> "none"]})
    \/ NextCompose({"u1"}, {"u1"})
    \/ NextMessages({"u1"}, PlainText, PostResults, MaxThreads, MaxToggled)
    \/ NextLikes(Pair, MaxToggled)

SpecToggle == Init /\ [][NextToggle]_vars

(* One user commenting and replying on one post and viewing its comments. *)
NextViews ==
    \/ NextStart({"u1"}, {[link |-> "none"]})
    \/ NextOf({"u1"}, PlainText, {"ok"}, MaxThreads, MaxViewed, MaxViewed + 1)
    \/ NextView({"u1"})

SpecView == Init /\ [][NextViews]_vars

(* Two users commenting and replying on one post, one of them viewing its  *)
(* comments by the button and by the deep link; the other may have been    *)
(* followed before the first /start.                                       *)
NextLinked ==
    \/ NextStart(Pair, {[link |-> "none"]})
    \/ NextCompose({"u1"}, Pair)
    \/ NextReplyToComment(Pair)
    \/ NextPosted(Pair, PlainText, MaxThreads, MaxViewed - 1, MaxViewed)
    \/ NextFollow({"u1"}, {"u2"})
    \/ NextView({"u1"})
    \/ NextLinkView({"u1"})

SpecLinked == Init /\ [][NextLinked]_vars

(* Two users changing their anonymous names and their sex. *)
NextName ==
    \/ NextStart(Pair, {[link |-> "none"]})
    \/ NextProfile(Pair)
    \/ NextMessage(Pair, NameMessages)
    \/ NextSex(Pair)

SpecName == Init /\ [][NextName]_vars

(* Two users following and unfollowing each other and themselves, and     *)
(* changing their names in between.                                        *)
NextFollows ==
    \/ NextStart(Pair, {[link |-> "none"]})
    \/ NextProfile(Pair)
    \/ NextMessage(Pair, PlainText)
    \/ NextFollow(Pair, Pair)

SpecFollow == Init /\ [][NextFollows]_vars

(* u2 posts and comments on the post, the messages passing through the     *)
(* update queue, while u1 follows and unfollows u2.  The queue is first    *)
(* in, first out: a button of u2 is handled on arrival only when no        *)
(* update is waiting in front of it.                                       *)
NextFollowed ==
    \/ NextStart(Pair, {[link |-> "none"]})
    \/ /\ \A u \in Users : tasks[u].pc # "queued"
       /\ NextCompose({"u2"}, {"u2"})
    \/ NextMessages({"u2"}, PlainText, PostResults, MaxThreads, MaxQueued)
    \/ NextFollowing({"u1"}, {"u2"})

SpecFollowed == Init /\ [][NextFollowed]_vars

(* Three users on one post: u1 publishes, u2 writes top-level comments and *)
(* reacts, u3 replies.                                                     *)
NextScenario ==
    \/ NextStart(Users, {[link |-> "none"]})
    \/ NextCompose({"u1"}, {"u2"})
    \/ NextReply({"u3"})
    \/ NextPosted(Users, PlainText, MaxThreads, MaxScene, MaxScene + 2)
    \/ NextReaction({"u2"}, MaxScene + 2)

SpecScenario == Init /\ [][NextScenario]_vars

(* One user reacting on the comments and replies another writes on a post: *)
(* the messages and the like / dislike callbacks wait in the update queue  *)
(* and are handled step by step.                                           *)
NextKept ==
    \/ NextStart(Pair, {[link |-> "none"]})
    \/ NextCompose({"u1"}, {"u1"})
    \/ NextReplyToComment({"u1"})
    \/ NextMessages({"u1"}, PlainText, PostResults, MaxThreads, MaxKept)
    \/ NextLikes({"u2"}, MaxKept)

SpecKept == Init /\ [][NextKept]_vars

(* One user posting and commenting, and viewing the profile with the       *)
(* rating in stars.                                                        *)
NextRated ==
    \/ NextStart({"u1"}, {[link |-> "none"]})
    \/ NextCompose({"u1"}, {"u1"})
    \/ NextPosted({"u1"}, PlainText, MaxThreads, MaxRated, MaxRated)
    \/ NextStars({"u1"})

SpecStars == Init /\ [][NextRated]_vars

(* One user commenting, replying and reacting, and using the Reply buttons *)
(* of the views and of the keyboards rebuilt after a reaction.             *)
NextControls ==
    \/ NextStart({"u1"}, {[link |-> "none"]})
    \/ NextOf({"u1"}, PlainText, {"ok"}, MaxThreads, MaxStored, MaxStored)
    \/ NextReaction({"u1"}, MaxStored)
    \/ NextRebuilt({"u1"})

SpecControls == Init /\ [][NextControls]_vars

(* One user commenting and replying, also through a typed deep link, who   *)
(* keeps sending text messages: a message that would be handled is         *)
(* eventually sent.                                                        *)
NextKeeps ==
    \/ NextStart({"u1"}, StartArgs)
    \/ NextOf({"u1"}, PlainText, {"ok"}, MaxThreads, MaxViewed, MaxViewed + 1)

KeepsSending(u) ==
    /\ \E m \in PlainText :
           \/ handle_message_rel(u, m, "ok")
           \/ handle_message_json(u, m, "ok", "ok")
    /\ Bounded(MaxThreads, MaxViewed, MaxViewed + 1)

SpecKeeps == Init /\ [][NextKeeps]_vars /\ WF_vars(KeepsSending("u1"))

----------------------------------------------------------------------------
(* Vocabulary of the properties *)

(* Comments and replies stored under post `p`, counted without             *)
(* count_all_comments: the rows naming the post, the nodes of its tree.    *)
RowsOf(p) == {i \in DOMAIN comments : comments[i].post_id = p}

RECURSIVE PathsIn(_)
PathsIn(cs) ==
    UNION {{<<i>>} \cup {<<i>> \o q : q \in PathsIn(cs[i].replies)} :
           i \in DOMAIN cs}

StoredUnder(p) ==
    IF variant = "relational" THEN Cardinality(RowsOf(p))
    ELSE Cardinality(PathsIn(posts[p].comments))

(* The count of a post obtained by walking the parent links: each          *)
(* top-level row of the post counts for 1 plus its descendants, a row's    *)
(* descendants are the rows whose parent it is, each for 1 plus its own.   *)
(* A parent row is always older than its children.                         *)
RECURSIVE DescendantsFrom(_, _, _)
DescendantsFrom(cs, id, i) ==
    IF i > Len(cs) THEN 0
    ELSE (IF cs[i].parent_comment_id = id
          THEN 1 + DescendantsFrom(cs, i, i + 1) ELSE 0)
         + DescendantsFrom(cs, id, i + 1)

RECURSIVE TopLevelFrom(_, _, _)
TopLevelFrom(cs, p, i) ==
    IF i > Len(cs) THEN 0
    ELSE (IF cs[i].post_id = p /\ cs[i].parent_comment_id = 0
          THEN 1 + DescendantsFrom(cs, i, i + 1) ELSE 0)
         + TopLevelFrom(cs, p, i + 1)

countDescendants(p) ==
    IF variant = "relational" THEN TopLevelFrom(comments, p, 1)
    ELSE count_all_comments_json(posts[p].comments)

(* The pending action a user row records. *)
AwaitingCommentOnly(row) ==
    /\ row.exists
    /\ row.waiting_for_comment
    /\ ~row.waiting_for_post
    /\ ~row.awaiting_name

PendingNone(row) ==
    /\ ~row.waiting_for_comment
    /\ ~row.waiting_for_post
    /\ ~row.awaiting_name

(* The target a row records: the deepest one that is set.  Relational: a   *)
(* comment id, 0 for none.  Nested-JSON: a path of list indexes, empty     *)
(* for none.                                                               *)
Target_rel(row) ==
    IF Truthy(row.reply_idx) THEN row.reply_idx
    ELSE IF Truthy(row.comment_idx) THEN row.comment_idx
    ELSE 0

Target_json(row) ==
    IF row.nested_idx # NULL
    THEN <<row.comment_idx, row.reply_idx, row.nested_idx>>
    ELSE IF row.reply_idx # NULL THEN <<row.comment_idx, row.reply_idx>>
    ELSE IF row.comment_idx # NULL THEN <<row.comment_idx>>
    ELSE <<>>

RECURSIVE ValidPath(_, _)
ValidPath(cs, path) ==
    \/ path = <<>>
    \/ /\ Head(path) >= 0
       /\ Head(path) < Len(cs)
       /\ ValidPath(At(cs, Head(path)).replies, Tail(path))

(* The list a comment at `path` joins: the top-level list for the empty    *)
(* path, else the replies of the node at `path`.                           *)
RECURSIVE ChildrenAt(_, _)
ChildrenAt(cs, path) ==
    IF path = <<>> THEN cs
    ELSE ChildrenAt(At(cs, Head(path)).replies, Tail(path))

(* A step in which the bot handles a message of user `u`. *)
SupportedMessages == {m \in Messages : m.kind \in SupportedKinds}

HandlesMessage(u, M) ==
    \E m \in M, net \in PostResults :
        \/ handle_message_rel(u, m, net)
        \/ \E net2 \in PostResults : handle_message_json(u, m, net, net2)

(* A step in which user `u` invokes "write comment" on post `p`, by        *)
(* button or by deep link.                                                 *)
InvokesWriteComment(u, p) ==
    \/ button_writecomment_rel(u, p)
    \/ button_writecomment_json(u, p)
    \/ start_rel(u, [link |-> "writecomment", post_id |-> p])
    \/ start_json(u, [link |-> "writecomment", post_id |-> p])

(* The step stores one new comment on post `p` under target `x`. *)
CreatedUnder_rel(p, x) ==
    /\ Len(comments') = Len(comments) + 1
    /\ comments'[Len(comments')].post_id = p
    /\ comments'[Len(comments')].parent_comment_id = x

CreatedUnder_json(p, x) ==
    /\ StoredJson(posts') = StoredJson(posts) + 1
    /\ Len(ChildrenAt(posts'[p].comments, x)) =
           Len(ChildrenAt(posts[p].comments, x)) + 1

(* Replies of the bot by the branch of handle_message that sent them. *)
OutcomesOf(kind) ==
    CASE kind = "post" -> {"posted", "post_failed"}
      [] kind = "name" -> {"name_updated", "name_invalid"}
      [] kind = "comment" -> {"comment_added", "reply_added", "unsupported",
                              "post_not_found", "comment_not_found",
                              "reply_not_found", "nested_not_found"}

(* Every node of a list of comments, at any depth. *)
RECURSIVE NodesOf(_)
NodesOf(cs) ==
    IF cs = <<>> THEN {}
    ELSE {Head(cs)} \cup NodesOf(Head(cs).replies) \cup NodesOf(Tail(cs))

Occurrences(list, x) == Cardinality({i \in DOMAIN list : list[i] = x})

(* The reaction of user `u` stored on a comment: "none" when there is none *)
StoredReaction_rel(rs, c, u) ==
    LET Mine == {i \in DOMAIN rs : rs[i].comment_id = c /\ rs[i].user_id = u}
    IN IF Mine = {} THEN "none" ELSE rs[CHOOSE i \in Mine : TRUE].type

StoredReaction_json(node, u) ==
    IF In(u, node.likes) THEN "like"
    ELSE IF In(u, node.dislikes) THEN "dislike"
    ELSE "none"

(* The controls rendered under comments and replies, and their types. *)
Controls ==
    {LIKECOMMENT, DISLIKECOMMENT, LIKEREPLY, DISLIKEREPLY,
     LIKENESTED, DISLIKENESTED}

ControlType(data) == IF StartsWith(DIS, data) THEN "dislike" ELSE "like"

(* What a toggle of type `t` leaves, on a stored reaction `prev`. *)
Toggled(prev, t) == IF prev = t THEN "none" ELSE t

(* A step in which user `u` uses control `data` on a comment. *)
Reacts_rel(u, data, c) ==
    \/ button_likecomment_rel(u, data, c)
    \/ button_likereply_rel(u, data, c)

Reacts_json(u, data, p, path) ==
    \/ Len(path) = 1 /\ button_likecomment_json(u, data, p, path[1])
    \/ Len(path) = 2 /\ button_likereply_json(u, data, p, path[1], path[2])
    \/ Len(path) = 3
           /\ button_likenested_json(u, data, p, path[1], path[2], path[3])

(* The comments and replies that carry controls in the nested-JSON views:  *)
(* post and path.                                                          *)
ReactionTargets_json ==
    {<<b[1], <<b[2]>>>> : b \in ReplyButtons_json}
    \cup {<<b[1][1], <<b[1][2], b[2]>>>> : b \in ReplyToReplyButtons_json}
    \cup {<<b[1][1][1], <<b[1][1][2], b[1][2], b[2]>>>> :
             b \in ReplyToNestedButtons_json}

----------------------------------------------------------------------------
(* C1: on a published post whose channel message lost no update, the       *)
(* count on the channel button is the number of comments and replies       *)
(* stored under the post, from publication (0) on.                         *)
C1_ButtonCountsStored ==
    \A p \in DOMAIN posts :
        LET message_id == posts[p].channel_message_id
        IN (message_id \in DOMAIN channel /\ ~channel[message_id].failed)
               => channel[message_id].count = StoredUnder(p)

(* C2: for every post, the count obtained recursively from its top-level   *)
(* comments equals the number of stored comments whose post it is.         *)
C2_RecursiveCountIsStored ==
    \A p \in DOMAIN posts : countDescendants(p) = StoredUnder(p)

(* C3: when a user in comment mode on post P with recorded target X (the   *)
(* deepest one recorded, an existing comment or reply, or none) sends a    *)
(* message, one comment is created on P with parent exactly X, and no      *)
(* pending action remains.                                                 *)
C3_ParentIsRecordedTarget ==
    [][\A u \in Users :
        LET row == users[u]
            p == row.comment_post_id
        IN /\ ( /\ variant = "relational"
                /\ AwaitingCommentOnly(row)
                /\ p \in DOMAIN posts
                /\ \/ Target_rel(row) = 0
                   \/ /\ Target_rel(row) \in DOMAIN comments
                      /\ comments[Target_rel(row)].post_id = p
                /\ HandlesMessage(u, SupportedMessages) )
              => (CreatedUnder_rel(p, Target_rel(row)) /\ PendingNone(users'[u]))
           /\ ( /\ variant = "json"
                /\ AwaitingCommentOnly(row)
                /\ p \in DOMAIN posts
                /\ ValidPath(posts[p].comments, Target_json(row))
                /\ HandlesMessage(u, SupportedMessages) )
              => (CreatedUnder_json(p, Target_json(row)) /\ PendingNone(users'[u]))
      ]_vars

(* C4: no user has two of the flags awaiting_name, waiting_for_post,       *)
(* waiting_for_comment set.                                                *)
C4_OnePendingFlag ==
    \A u \in Users :
        users[u].exists =>
            ~(users[u].awaiting_name /\ users[u].waiting_for_post)
            /\ ~(users[u].awaiting_name /\ users[u].waiting_for_comment)
            /\ ~(users[u].waiting_for_post /\ users[u].waiting_for_comment)

(* C5: the next message of a user is handled by the branch of the action   *)
(* the user started last (post, comment or reply, name).                   *)
C5_LastActionWins ==
    [][\A u \in Users :
        (intent[u].kind # "none" /\ HandlesMessage(u, Messages))
            => outcome' \in OutcomesOf(intent[u].kind)
      ]_vars

(* C6: "write comment" on post P, by button or deep link, leaves the user  *)
(* in comment mode on P with no target recorded.                           *)
C6_WriteCommentHasNoTarget ==
    [][\A u \in Users, p \in 1..(Len(posts) + 1) :
        InvokesWriteComment(u, p) =>
            /\ users'[u].waiting_for_comment
            /\ users'[u].comment_post_id = p
            /\ IF variant = "relational" THEN Target_rel(users'[u]) = 0
               ELSE Target_json(users'[u]) = <<>>
      ]_vars

(* C7: the message that follows "write comment" on an existing post P      *)
(* becomes a top-level comment on P and leaves no pending action; a        *)
(* message of a user with no pending action is an ordinary one and adds    *)
(* nothing to any thread.                                                  *)
C7_OnlyFirstMessageIsComment ==
    [][\A u \in Users :
        /\ ( /\ intent[u].kind = "comment"
             /\ intent[u].parent = IF variant = "relational" THEN 0 ELSE <<>>
             /\ intent[u].post_id \in DOMAIN posts
             /\ HandlesMessage(u, SupportedMessages) )
           => /\ IF variant = "relational"
                 THEN CreatedUnder_rel(intent[u].post_id, 0)
                 ELSE CreatedUnder_json(intent[u].post_id, <<>>)
              /\ PendingNone(users'[u])
        /\ ( /\ users[u].exists
             /\ PendingNone(users[u])
             /\ HandlesMessage(u, Messages) )
           => /\ outcome' = "none"
              /\ posts' = posts
              /\ comments' = comments
      ]_vars

(* C8: a user has at most one reaction on a comment: one row per           *)
(* (comment, user), one occurrence in the likes and dislikes of a node.    *)
C8_OneReactionPerUser ==
    /\ \A i, j \in DOMAIN reactions :
           (reactions[i].comment_id = reactions[j].comment_id
                /\ reactions[i].user_id = reactions[j].user_id) => i = j
    /\ variant = "json" =>
           \A p \in DOMAIN posts, u \in Users :
               \A node \in NodesOf(posts[p].comments) :
                   Occurrences(node.likes, u) + Occurrences(node.dislikes, u) <= 1

(* Both users have reacted on one node, one of them with a dislike after   *)
(* the other's like; two rows on one comment.                              *)
C8_Witness ==
    IF variant = "json"
    THEN \E p \in DOMAIN posts : \E node \in NodesOf(posts[p].comments) :
             node.likes # <<>> /\ node.dislikes # <<>>
    ELSE \E i, j \in DOMAIN reactions :
             i # j /\ reactions[i].comment_id = reactions[j].comment_id

(* C9: after a toggle of type t by a user on a comment, the stored         *)
(* reaction of the user is t, or none if t was the stored type.            *)
C9_LastToggleDecides ==
    [][\A u \in Users, data \in Controls :
        /\ \A c \in DOMAIN comments :
               Reacts_rel(u, data, c) =>
                   StoredReaction_rel(reactions', c, u) =
                       Toggled(StoredReaction_rel(reactions, c, u),
                               ControlType(data))
        /\ \A b \in ReactionTargets_json :
               Reacts_json(u, data, b[1], b[2]) =>
                   StoredReaction_json(NodeAt(posts'[b[1]].comments, b[2]), u) =
                       Toggled(StoredReaction_json(
                                   NodeAt(posts[b[1]].comments, b[2]), u),
                               ControlType(data))
      ]_vars

(* C10: the first reaction of a user on a comment or reply has the type    *)
(* of the control used.                                                    *)
C10_TypeOfControl ==
    [][\A u \in Users, data \in Controls :
        /\ \A c \in DOMAIN comments :
               (StoredReaction_rel(reactions, c, u) = "none"
                    /\ Reacts_rel(u, data, c))
               => StoredReaction_rel(reactions', c, u) = ControlType(data)
        /\ \A b \in ReactionTargets_json :
               (StoredReaction_json(NodeAt(posts[b[1]].comments, b[2]), u) = "none"
                    /\ Reacts_json(u, data, b[1], b[2]))
               => StoredReaction_json(NodeAt(posts'[b[1]].comments, b[2]), u)
                      = ControlType(data)
      ]_vars

(* The replies that name a missing comment, reply or nested reply.        *)
NotFoundOutcomes ==
    {"comment_not_found", "reply_not_found", "nested_not_found"}

(* C11: a message of a user in comment mode on post P whose recorded       *)
(* parent is no stored comment, or is a comment of another post than P,    *)
(* is answered with an invalid-parent reply and stores no comment.         *)
C11_InvalidParentRejected ==
    [][\A u \in Users :
        LET row == users[u]
            p == row.comment_post_id
        IN /\ ( /\ variant = "relational"
                /\ AwaitingCommentOnly(row)
                /\ Target_rel(row) # 0
                /\ ~( /\ Target_rel(row) \in DOMAIN comments
                      /\ comments[Target_rel(row)].post_id = p )
                /\ HandlesMessage(u, SupportedMessages) )
              => (comments' = comments /\ outcome' \in NotFoundOutcomes)
           /\ ( /\ variant = "json"
                /\ AwaitingCommentOnly(row)
                /\ p \in DOMAIN posts
                /\ Target_json(row) # <<>>
                /\ ~ValidPath(posts[p].comments, Target_json(row))
                /\ HandlesMessage(u, SupportedMessages) )
              => (posts' = posts /\ outcome' \in NotFoundOutcomes)
      ]_vars

(* C12: a like or dislike on a comment, reply or nested reply that is not  *)
(* stored is answered with a not-found reply and stores no reaction.       *)
C12_NoReactionOnMissingComment ==
    [][\A u \in Users, data \in Controls :
        /\ \A c \in UnrenderedComments_rel :
               Reacts_rel(u, data, c)
                   => (reactions' = reactions /\ outcome' \in NotFoundOutcomes)
        /\ \A t \in UnrenderedTargets_json :
               (t[1] \in DOMAIN posts /\ Reacts_json(u, data, t[1], t[2]))
                   => (posts' = posts /\ outcome' \in NotFoundOutcomes)
      ]_vars

(* C14: a message that the comment branch stores while the update of the  *)
(* channel counter fails is stored all the same, comment mode is reset     *)
(* (flag and recorded ids) and the user gets the added reply.              *)
C14_MirrorFailureKeepsComment ==
    [][\A u \in Users, m \in Messages :
        LET row == users[u]
            p == row.comment_post_id
        IN /\ ( /\ handle_message_rel(u, m, "failed")
                /\ ~row.waiting_for_post
                /\ row.waiting_for_comment
                /\ m.kind \in SupportedKinds )
              => /\ Len(comments') = Len(comments) + 1
                 /\ comments'[Len(comments')].post_id = p
                 /\ users'[u] = ClearReplyMode(row)
                 /\ outcome' = "comment_added"
           /\ ( /\ \E net2 \in MessengerResults :
                       handle_message_json(u, m, "failed", net2)
                /\ row.waiting_for_comment
                /\ p \in DOMAIN posts
                /\ ValidPath(posts[p].comments, Target_json(row))
                /\ Target_json(row) # <<>> \/ m.kind \in SupportedKinds )
              => /\ posts'[p].comments # posts[p].comments
                 /\ count_all_comments_json(posts'[p].comments)
                        = count_all_comments_json(posts[p].comments) + 1
                 /\ users'[u] = ClearReplyMode(row)
                 /\ outcome' \in {"comment_added", "reply_added"}
      ]_vars

(* A comment was added on a published post whose counter update failed:    *)
(* the button is behind the stored count, nobody is left in comment mode.  *)
C14_Witness ==
    /\ outcome \in {"comment_added", "reply_added"}
    /\ \A u \in Users : users[u].exists => ~users[u].waiting_for_comment
    /\ \E mid \in DOMAIN channel :
           /\ channel[mid].failed
           /\ channel[mid].post_id \in DOMAIN posts
           /\ channel[mid].count < StoredUnder(channel[mid].post_id)

(* C13: the post of every stored comment exists.                           *)
C13_CommentsHavePosts ==
    \A c \in DOMAIN comments : comments[c].post_id \in DOMAIN posts

(* C18: handling a message of a user in comment mode on a post row that    *)
(* has no channel message id requests no edit from the Messenger.          *)
C18_NoRequestWithoutHandle ==
    [][\A u \in Users :
        ( /\ HandlesMessage(u, Messages)
          /\ users[u].waiting_for_comment
          /\ users[u].comment_post_id \in DOMAIN posts
          /\ posts[users[u].comment_post_id].channel_message_id = NULL )
        => ~request'.issued
      ]_vars

(* C17: the channel message id of a post row never changes; a new row has  *)
(* none or the id of the channel message sent in the same step.            *)
C17_HandleSetOnce ==
    [][/\ \A p \in DOMAIN posts :
              /\ p \in DOMAIN posts'
              /\ posts'[p].channel_message_id = posts[p].channel_message_id
       /\ \A p \in (DOMAIN posts') \ (DOMAIN posts) :
              \/ posts'[p].channel_message_id = NULL
              \/ posts'[p].channel_message_id
                     \in (DOMAIN channel') \ (DOMAIN channel)
      ]_vars

(* A published post after comments, a reaction, a follow and a change of   *)
(* name.                                                                   *)
C17_Witness ==
    /\ outcome = "name_updated"
    /\ StoredReactions >= 1
    /\ IF variant = "relational"
       THEN \E i \in DOMAIN followers :
                followers[i] = [follower_id |-> "u1", followed_id |-> "u2"]
       ELSE users["u2"].exists /\ In("u1", users["u2"].followers)
    /\ \E p \in DOMAIN posts :
           /\ posts[p].channel_message_id \in DOMAIN channel
           /\ StoredUnder(p) >= 2

(* The author of the comment or reply at `path` (indexes from 1).          *)
RECURSIVE ReplyAt(_, _)
ReplyAt(cs, path) ==
    IF Len(path) = 1 THEN cs[path[1]]
    ELSE ReplyAt(cs[path[1]].replies, Tail(path))

AuthorAt(cs, path) ==
    IF Len(path) = 1 THEN cs[path[1]].author_id ELSE ReplyAt(cs, path).user_id

(* Published posts of a user; comments and replies of a user at any depth. *)
PublishedBy(u) ==
    {p \in DOMAIN posts :
        posts[p].author_id = u /\ posts[p].channel_message_id # NULL}

WrittenBy(u) ==
    IF variant = "relational"
    THEN {<<c>> : c \in {c \in DOMAIN comments : comments[c].author_id = u}}
    ELSE UNION {{<<p>> \o path :
                    path \in {q \in PathsIn(posts[p].comments) :
                                 AuthorAt(posts[p].comments, q) = u}} :
                p \in DOMAIN posts}

score(u) ==
    IF variant = "relational"
    THEN calculate_user_rating_rel(posts, comments, u)
    ELSE calculate_user_rating_json(posts, u)

(* C20: the score of a user is the number of the user's published posts    *)
(* plus the number of the user's comments and replies, at any depth.       *)
C20_ScoreCountsPostsAndComments ==
    \A u \in Users :
        score(u) = Cardinality(PublishedBy(u)) + Cardinality(WrittenBy(u))

(* Both users sent a message while the other's update was waiting or      *)
(* being handled; both messages became comments or replies on post `p`,    *)
(* both updates of the channel button succeeded and both handlers have     *)
(* returned, with the answer to the user delivered or not.                 *)
TwoCommentsAdded(p) ==
    \A u \in Pair :
        /\ tasks[u].pc = "done"
        /\ tasks[u].update.kind = "message"
        /\ tasks[u].reply \in AddedReplies \cup {"error"}
        /\ tasks[u].post_id = p
        /\ tasks[u].net = "ok"

(* C15: after two comment additions on one post whose button updates both  *)
(* succeeded, the channel button shows the number of comments stored for   *)
(* the post, in whatever order the dispatcher ran the steps.               *)
C15_CounterAfterTwoComments ==
    \A p \in DOMAIN posts :
        TwoCommentsAdded(p) =>
            /\ posts[p].channel_message_id \in DOMAIN channel
            /\ channel[posts[p].channel_message_id].count = StoredUnder(p)

(* The two additions were in the application at the same time, and one    *)
(* of them was a reply under a comment.                                    *)
C15_Witness ==
    \E p \in DOMAIN posts :
        /\ TwoCommentsAdded(p)
        /\ \A u \in Pair : tasks[u].overlap
        /\ StoredUnder(p) >= 3
        /\ \/ \E i \in DOMAIN comments : comments[i].parent_comment_id # 0
           \/ /\ variant = "json"
              /\ \E i \in DOMAIN posts[p].comments :
                     posts[p].comments[i].replies # <<>>

(* The like / dislike handlers of both users have returned after a toggle  *)
(* on the same comment.                                                    *)
TwoToggles ==
    /\ \A u \in Pair :
           /\ tasks[u].pc = "done"
           /\ tasks[u].update.kind = "callback"
           /\ tasks[u].reply = "counts"
    /\ \A u, v \in Pair : tasks[u].update.target = tasks[v].update.target

(* The reaction of `u` that is stored on the comment of its last callback. *)
StoredOnTarget(u) ==
    LET t == tasks[u].update.target
    IN IF variant = "relational" THEN StoredReaction_rel(reactions, t, u)
       ELSE StoredReaction_json(NodeAt(posts[t[1]].comments, <<t[2]>>), u)

(* C16: after the toggles of two users on one comment the stored           *)
(* reactions hold the result of both: a row of each user (relational),     *)
(* the toggle of each user applied to what the user had (nested JSON), in  *)
(* whatever order the dispatcher ran the steps.                            *)
C16_BothTogglesStored ==
    TwoToggles =>
        \A u \in Pair :
            IF variant = "relational" THEN StoredOnTarget(u) # "none"
            ELSE StoredOnTarget(u) =
                     Toggled(tasks[u].prev, ControlType(tasks[u].update.data))

(* The two callbacks were in the application at the same time and both     *)
(* left a reaction.                                                        *)
C16_Witness ==
    /\ TwoToggles
    /\ \A u \in Pair : tasks[u].overlap /\ StoredOnTarget(u) # "none"

(* The messages of the listing that show a top-level comment, and those    *)
(* that show a reply under comment `at`.                                   *)
TopLevelSent == {i \in DOMAIN listing : Len(listing[i].at) = 1}

RepliesSent(at) ==
    {i \in DOMAIN listing :
        Len(listing[i].at) = Len(at) + 1
            /\ SubSeq(listing[i].at, 1, Len(at)) = at}

(* Comment ids and list indexes grow with time (AUTOINCREMENT, append).    *)
Newer(a, b) == a[Len(a)] > b[Len(b)]

(* C21: in a listing, top-level comments come newest first and the         *)
(* replies under one comment oldest first.                                 *)
C21_ListingOrder ==
    /\ \A i, j \in TopLevelSent :
           i < j => Newer(listing[i].at, listing[j].at)
    /\ \A k \in DOMAIN listing :
           \A i, j \in RepliesSent(listing[k].at) :
               i < j => Newer(listing[j].at, listing[i].at)

(* The row records the pending action of a new post and no other. *)
AwaitingPostOnly(row) ==
    /\ row.exists
    /\ row.waiting_for_post
    /\ ~row.waiting_for_comment
    /\ ~row.awaiting_name

(* C22: the message of a user whose pending action is a new post resets    *)
(* the pending action and stores no post and sends nothing to the channel. *)
C22_PostMessageOnlyDrafts ==
    [][\A u \in Users :
        (AwaitingPostOnly(users[u]) /\ HandlesMessage(u, Messages))
            => /\ PendingNone(users'[u])
               /\ posts' = posts
               /\ channel' = channel
      ]_vars

(* The row records the pending action of a new name and no other. *)
AwaitingNameOnly(row) ==
    /\ row.exists
    /\ row.awaiting_name
    /\ ~row.waiting_for_post
    /\ ~row.waiting_for_comment

(* The text or caption is a name: not empty once trimmed, MaxNameLen       *)
(* characters at most.                                                     *)
IsName(text) == strip(text) # <<>> /\ Len(strip(text)) <= MaxNameLen

(* C28: a message of a user whose pending action is a new name sets the    *)
(* name to the trimmed text and resets the pending action when the         *)
(* trimmed text is not empty and has 30 characters at most; any other      *)
(* message leaves the row as it is.                                        *)
C28_NameValidation ==
    [][\A u \in Users, m \in NameMessages :
        ( /\ AwaitingNameOnly(users[u])
          /\ \/ handle_message_rel(u, m, "ok")
             \/ handle_message_json(u, m, "ok", "ok") )
        => IF IsName(MessageText(m))
           THEN /\ users'[u].anonymous_name = strip(MessageText(m))
                /\ PendingNone(users'[u])
           ELSE users'[u] = users[u]
      ]_vars

(* C29: sex_male stores the male symbol, sex_female the female symbol,     *)
(* and nothing else of the row changes.                                    *)
C29_SexOfOption ==
    [][\A u \in Users :
        /\ (button_sex_rel(u, SEX_MALE) \/ button_sex_json(u, SEX_MALE))
               => users'[u] = [users[u] EXCEPT !.sex = SexMale]
        /\ (button_sex_rel(u, SEX_FEMALE) \/ button_sex_json(u, SEX_FEMALE))
               => users'[u] = [users[u] EXCEPT !.sex = SexFemale]
      ]_vars

(* The follow records of the ordered pair (a, b): rows of the followers    *)
(* table, occurrences of `a` in the followers list of `b`.                 *)
FollowRecords(fs, us, a, b) ==
    IF variant = "relational"
    THEN Cardinality({i \in DOMAIN fs :
                         fs[i].follower_id = a /\ fs[i].followed_id = b})
    ELSE IF us[b].exists THEN Occurrences(us[b].followers, a) ELSE 0

(* A step in which user `a` presses the button `data` of the profile of    *)
(* user `b`.                                                               *)
PressesFollow(a, data, b) ==
    \/ button_follow_rel(a, data, b)
    \/ button_follow_json(a, data, b)

(* C24: there is at most one follow record per ordered pair; a follow of   *)
(* B by A leaves exactly one record of (A, B), and leaves everything as    *)
(* it is when there was one; an unfollow leaves none; neither changes the  *)
(* records of any other pair, (B, A) included.                             *)
C24_FollowRecords ==
    /\ [](\A a, b \in Users : FollowRecords(followers, users, a, b) <= 1)
    /\ [][\A a, b \in Users :
            /\ PressesFollow(a, FOLLOW, b) =>
                   /\ FollowRecords(followers', users', a, b) = 1
                   /\ FollowRecords(followers, users, a, b) = 1 =>
                          (followers' = followers /\ users' = users)
            /\ PressesFollow(a, UNFOLLOW, b) =>
                   FollowRecords(followers', users', a, b) = 0
            /\ (PressesFollow(a, FOLLOW, b) \/ PressesFollow(a, UNFOLLOW, b)) =>
                   \A x, y \in Users :
                       <<x, y>> # <<a, b>> =>
                           FollowRecords(followers', users', x, y)
                               = FollowRecords(followers, users, x, y)
        ]_vars

(* u1 follows u2 and itself after a follow button, u2 does not follow u1.  *)
C24_Witness ==
    /\ outcome = "follow_updated"
    /\ FollowRecords(followers, users, "u1", "u2") = 1
    /\ FollowRecords(followers, users, "u1", "u1") = 1
    /\ FollowRecords(followers, users, "u2", "u1") = 0
    /\ users["u2"].exists

(* Post 1 of u1 is published; u2 has added the top-level comment C1 on it  *)
(* and u3 the reply R1 to C1; nothing else is stored.                      *)
ScenarioStored ==
    /\ Len(posts) = 1
    /\ posts[1].author_id = "u1"
    /\ posts[1].channel_message_id \in DOMAIN channel
    /\ IF variant = "relational"
       THEN /\ Len(comments) = 2
            /\ comments[1].post_id = 1 /\ comments[1].parent_comment_id = 0
            /\ comments[1].author_id = "u2"
            /\ comments[2].post_id = 1 /\ comments[2].parent_comment_id = 1
            /\ comments[2].author_id = "u3"
       ELSE /\ Len(posts[1].comments) = 1
            /\ posts[1].comments[1].author_id = "u2"
            /\ Len(posts[1].comments[1].replies) = 1
            /\ posts[1].comments[1].replies[1].user_id = "u3"
            /\ posts[1].comments[1].replies[1].replies = <<>>

(* The comment messages "View Comments" of post `p` would send. *)
Listed(cs, rs, ps, p) ==
    IF variant = "relational"
    THEN view_rel(cs, rs, top_level_rows(cs, p, 1))
    ELSE view_json(ps[p].comments, 0)

(* C25: after u1 published P, u2 commented it with C1, u3 replied to C1    *)
(* with R1 and u2 liked R1, the comment count of P and its channel button  *)
(* are 2, and the listing of P is C1 followed by R1 alone, R1 with one     *)
(* like and no dislike.                                                    *)
C25_Scenario ==
    [][( /\ ScenarioStored
         /\ StoredReactions = 0
         /\ \/ Reacts_rel("u2", LIKEREPLY, 2)
            \/ Reacts_json("u2", LIKEREPLY, 1, <<0, 0>>) )
       => /\ IF variant = "relational"
             THEN count_all_comments_rel(comments', 1) = 2
             ELSE count_all_comments_json(posts'[1].comments) = 2
          /\ channel'[posts'[1].channel_message_id].count = 2
          /\ Listed(comments', reactions', posts', 1) =
                IF variant = "relational"
                THEN <<[at |-> <<1>>, likes |-> 0, dislikes |-> 0],
                       [at |-> <<1, 2>>, likes |-> 1, dislikes |-> 0]>>
                ELSE <<[at |-> <<0>>, likes |-> 0, dislikes |-> 0],
                       [at |-> <<0, 0>>, likes |-> 1, dislikes |-> 0]>>
      ]_vars

(* The state the scenario ends in: the like of u2 is the last thing done   *)
(* and the only reaction stored.                                           *)
C25_Witness ==
    /\ ScenarioStored
    /\ outcome = "counts"
    /\ StoredReactions = 1
    /\ Listed(comments, reactions, posts, 1)[2].likes = 1


(* Messages of a content type the bot does not take: neither text, photo   *)
(* nor voice.                                                              *)
UnsupportedMessages == {m \in Messages : m.kind \notin SupportedKinds}

(* C30: when a user in comment mode on a stored post, with a recorded      *)
(* target that is none, a stored comment or a stored reply, sends a        *)
(* message of unsupported content type, no comment or reply is stored and  *)
(* the pending action of the user is unchanged.                            *)
C30_UnsupportedKeepsPending ==
    [][\A u \in Users :
        LET row == users[u]
            p == row.comment_post_id
        IN ( /\ AwaitingCommentOnly(row)
             /\ p \in DOMAIN posts
             /\ \/ /\ variant = "relational"
                   /\ \/ Target_rel(row) = 0
                      \/ /\ Target_rel(row) \in DOMAIN comments
                         /\ comments[Target_rel(row)].post_id = p
                \/ /\ variant = "json"
                   /\ ValidPath(posts[p].comments, Target_json(row))
             /\ HandlesMessage(u, UnsupportedMessages) )
           => /\ comments' = comments
              /\ posts' = posts
              /\ users'[u] = row
      ]_vars


(* The stored comments a rendered Reply button aims at.  Relational: ids   *)
(* of rows; nested-JSON: paths of list indexes in the post.                *)
ReplyTargets_rel ==
    {b[2] : b \in ReplyButtons_rel} \cup {b[2] : b \in ReplyToReplyButtons_rel}

ReplyTargets_json(p) ==
    {<<b[2]>> : b \in {r \in ReplyButtons_json : r[1] = p}}
    \cup {<<b[1][2], b[2]>> :
             b \in {r \in ReplyToReplyButtons_json : r[1][1] = p}}
    \cup {<<b[1][1][2], b[1][2], b[2]>> :
             b \in {r \in ReplyToNestedButtons_json : r[1][1][1] = p}}

(* The path of list indexes of the code (from 0) of a path of PathsIn. *)
IndexPath(q) == [i \in DOMAIN q |-> q[i] - 1]

(* A step in which user `u` presses the Reply button rendered on the       *)
(* stored comment `x` of post `p`.                                         *)
PressesReply_rel(u, p, x) ==
    \/ <<p, x>> \in ReplyButtons_rel /\ button_reply_rel(u, p, x)
    \/ \E b \in ReplyToReplyButtons_rel :
           b[1][1] = p /\ b[2] = x /\ button_replytoreply_rel(u, p, b[1][2], x)

PressesReply_json(u, p, x) ==
    \/ Len(x) = 1 /\ button_reply_json(u, p, x[1])
    \/ Len(x) = 2 /\ button_replytoreply_json(u, p, x[1], x[2])
    \/ Len(x) = 3 /\ button_replytonested_json(u, p, x[1], x[2], x[3])

(* C27: every stored comment or reply X, at any depth, has a reply action; *)
(* taken by a user with no pending action, it leaves the user awaiting a   *)
(* comment with X as the recorded target; the message that completes it    *)
(* stores one comment whose parent is X, one level deeper than X.          *)
C27_ReplyAtEveryDepth ==
    /\ [](/\ variant = "relational" => DOMAIN comments \subseteq ReplyTargets_rel
          /\ variant = "json" =>
                 \A p \in DOMAIN posts :
                     \A q \in PathsIn(posts[p].comments) :
                         IndexPath(q) \in ReplyTargets_json(p))
    /\ [][\A u \in Users :
           LET row == users[u]
               p == row.comment_post_id
           IN /\ \A q \in DOMAIN posts, x \in ReplyTargets_rel :
                     (row.exists /\ PendingNone(row) /\ PressesReply_rel(u, q, x)) =>
                         /\ users'[u].waiting_for_comment
                         /\ users'[u].comment_post_id = q
                         /\ Target_rel(users'[u]) = x
              /\ \A q \in DOMAIN posts :
                     \A x \in ReplyTargets_json(q) :
                         (row.exists /\ PendingNone(row) /\ PressesReply_json(u, q, x)) =>
                             /\ users'[u].waiting_for_comment
                             /\ users'[u].comment_post_id = q
                             /\ Target_json(users'[u]) = x
              /\ ( /\ variant = "relational"
                   /\ AwaitingCommentOnly(row)
                   /\ p \in DOMAIN posts
                   /\ Target_rel(row) \in ReplyTargets_rel
                   /\ comments[Target_rel(row)].post_id = p
                   /\ HandlesMessage(u, SupportedMessages) )
                 => CreatedUnder_rel(p, Target_rel(row))
              /\ ( /\ variant = "json"
                   /\ AwaitingCommentOnly(row)
                   /\ p \in DOMAIN posts
                   /\ Target_json(row) \in ReplyTargets_json(p)
                   /\ HandlesMessage(u, SupportedMessages) )
                 => CreatedUnder_json(p, Target_json(row))
         ]_vars


(* What a stored comment or reply says: its fields other than the          *)
(* reactions and the replies under it.                                     *)
Content(node) ==
    [f \in (DOMAIN node) \ {"likes", "dislikes", "replies"} |-> node[f]]

(* The step keeps the stored comment: the row with its post, parent,       *)
(* author and content (relational); every node of the old list at the     *)
(* same index of the new list, with its author and content, and so for     *)
(* the replies under it (nested JSON).                                     *)
Kept_rel(i) == i \in DOMAIN comments' /\ comments'[i] = comments[i]

RECURSIVE Kept_json(_, _)
Kept_json(old, new) ==
    /\ Len(new) >= Len(old)
    /\ \A i \in DOMAIN old :
           /\ Content(new[i]) = Content(old[i])
           /\ Kept_json(old[i].replies, new[i].replies)

(* C26: no step of any handler removes a stored comment or reply or        *)
(* changes its post, parent, author or content, in whatever order the      *)
(* dispatcher runs the steps of the handlers.                              *)
C26_CommentsKept ==
    [][/\ variant = "relational" => \A i \in DOMAIN comments : Kept_rel(i)
       /\ variant = "json" =>
              \A p \in DOMAIN posts :
                  /\ p \in DOMAIN posts'
                  /\ Kept_json(posts[p].comments, posts'[p].comments)]_vars

(* A comment was stored while a reaction callback of the other user was    *)
(* waiting in the application, the reaction was stored after it, and the   *)
(* post holds a reply as well.                                             *)
C26_Witness ==
    /\ tasks["u2"].pc = "done"
    /\ tasks["u2"].update.kind = "callback"
    /\ tasks["u2"].reply = "counts"
    /\ tasks["u2"].overlap
    /\ tasks["u1"].pc = "done"
    /\ tasks["u1"].update.kind = "message"
    /\ tasks["u1"].overlap
    /\ StoredReactions >= 1
    /\ \/ \E i \in DOMAIN comments : comments[i].parent_comment_id # 0
       \/ /\ variant = "json"
          /\ \E p \in DOMAIN posts :
                 \E i \in DOMAIN posts[p].comments :
                     posts[p].comments[i].replies # <<>>


(* The star symbols of a string of stars. *)
StarSymbols(str) ==
    Cardinality({i \in DOMAIN str : str[i] \in {"U+2B50", "U+2606"}})

(* C36: the stars of a profile are min(rating, 5) full stars followed by   *)
(* max(0, 5 - rating) empty stars, 5 star symbols in all.                  *)
C36_FiveStars ==
    outcome = "profile" =>
        \A i \in DOMAIN listing :
            LET rating == listing[i].rating
                full == IF rating < 5 THEN rating ELSE 5
                stars == listing[i].stars
            IN /\ rating >= 0
               /\ Len(stars) = 2 * full + (5 - full)
               /\ \A k \in 1..full :
                      SubSeq(stars, 2 * k - 1, 2 * k) = FULL_STAR
               /\ \A k \in (2 * full + 1)..Len(stars) : <<stars[k]>> = EMPTY_STAR
               /\ StarSymbols(stars) = 5

(* A profile with a rating above 5: the full stars are capped. *)
C36_Witness ==
    /\ outcome = "profile"
    /\ listing[1].rating > MAX_STARS
    /\ Len(listing[1].stars) = 2 * MAX_STARS


(* C31: when the message of a user awaiting a post is answered "failed to  *)
(* post", no post row and no channel message of it remain; when it is      *)
(* answered "posted", the post row exists with the id of its channel       *)
(* message.                                                                *)
C31_PostAllOrNothing ==
    [][\A u \in Users :
        (AwaitingPostOnly(users[u]) /\ HandlesMessage(u, Messages)) =>
            /\ outcome' = "post_failed" =>
                   (posts' = posts /\ channel' = channel)
            /\ outcome' = "posted" =>
                   /\ Len(posts') = Len(posts) + 1
                   /\ posts'[Len(posts')].author_id = u
                   /\ posts'[Len(posts')].channel_message_id \in DOMAIN channel'
      ]_vars


(* C32: the Reply button shown for a stored comment or reply X of post P,  *)
(* by a view or by the keyboard rebuilt after a reaction on X, pressed by  *)
(* a user with no pending action, leaves the user awaiting a comment on P  *)
(* with X as the recorded target.                                          *)
C32_ReplyControlsWork ==
    [][\A u \in Users :
        LET row == users[u]
            Ready == row.exists /\ PendingNone(row)
        IN /\ \A q \in DOMAIN posts, x \in ReplyTargets_rel :
                  (Ready /\ PressesReply_rel(u, q, x)) =>
                      /\ users'[u].waiting_for_comment
                      /\ users'[u].comment_post_id = q
                      /\ Target_rel(users'[u]) = x
           /\ \A q \in DOMAIN posts :
                  \A x \in ReplyTargets_json(q) :
                      (Ready /\ PressesReply_json(u, q, x)) =>
                          /\ users'[u].waiting_for_comment
                          /\ users'[u].comment_post_id = q
                          /\ Target_json(users'[u]) = x
           /\ \A ids \in RebuiltReplyButtons_rel :
                  (Ready /\ button_reply_parts_rel(u, ids)) =>
                      /\ users'[u].waiting_for_comment
                      /\ users'[u].comment_post_id = comments[ids[1]].post_id
                      /\ Target_rel(users'[u]) = ids[1]
           /\ \A ids \in RebuiltReplyToReplyButtons_rel :
                  (Ready /\ button_replytoreply_parts_rel(u, ids)) =>
                      /\ users'[u].waiting_for_comment
                      /\ users'[u].comment_post_id = comments[ids[1]].post_id
                      /\ Target_rel(users'[u]) = ids[1]
      ]_vars


(* A step in which the bot handles a text message of user `u`. *)
SendsText(u) ==
    \E m \in PlainText :
        \/ handle_message_rel(u, m, "ok")
        \/ handle_message_json(u, m, "ok", "ok")

(* C33: if from some point on the user only sends text messages, then      *)
(* from some point on the user is not awaiting a comment (checked where    *)
(* the tables have room for the comment).                                  *)
C33_NeverTrapped ==
    ( /\ <>[][SendsText("u1")]_vars
      /\ []<>(Len(posts) + StoredComments < MaxViewed) )
        => <>[](~AwaitingCommentOnly(users["u1"]))

(* The follow handler of `a` on the profile of `b` and the comment handler *)
(* of `b` were in the application at the same time and have both          *)
(* returned, and no handler has run since.                                 *)
FollowedWhileCommenting(a, b) ==
    /\ tasks[a].overlap
    /\ tasks[b].overlap
    /\ tasks[a].pc = "done"
    /\ tasks[a].update.kind = "callback"
    /\ tasks[a].update.data = FOLLOW
    /\ tasks[a].update.target = b
    /\ tasks[a].reply = "follow_updated"
    /\ tasks[b].pc = "done"
    /\ tasks[b].update.kind = "message"
    /\ tasks[b].reply \in {"comment_added", "error"}
    /\ tasks[b].post_id # NULL
    /\ outcome \in {"follow_updated", "comment_added", "error"}

(* The handler of the comment message of `b` reached its write of the     *)
(* row of `b`: always in the relational variant (the UPDATE comes before   *)
(* the answer), in the nested-JSON variant when the answer was delivered   *)
(* (save_user comes after it).                                             *)
WroteState(b) == variant = "relational" \/ tasks[b].reply = "comment_added"

(* C34: after a follow of u2 by u1 and the handling of a comment message   *)
(* of u2 have both finished, u1 is recorded as a follower of u2 and u2     *)
(* is in the state its handler set: the comment mode cleared when the      *)
(* handler reached its write, the comment mode it read otherwise, in       *)
(* whatever order the dispatcher ran the steps.                            *)
C34_FollowKept ==
    FollowedWhileCommenting("u1", "u2") =>
        /\ FollowRecords(followers, users, "u1", "u2") = 1
        /\ IF WroteState("u2")
           THEN users["u2"] = ClearReplyMode(users["u2"])
           ELSE /\ users["u2"].waiting_for_comment
                /\ users["u2"].comment_post_id = tasks["u2"].post_id

(* The follow arrived while the comment of u2 was being handled, in the    *)
(* nested-JSON variant, where the followers are kept in the row of u2.     *)
C34_Witness ==
    /\ variant = "json"
    /\ FollowedWhileCommenting("u1", "u2")
    /\ outcome = "follow_updated"
    /\ In("u1", users["u2"].followers)

(* C35: whatever is stored, the viewcomments_ deep link of a user who has  *)
(* started the bot does what the viewcomments_ button does: the same       *)
(* outcome, without error, and the same messages for the top-level         *)
(* comments and the replies under each.                                    *)
C35_ViewsEquivalent ==
    [][\A u \in Users, p \in 1..(Len(posts) + 1) :
           users[u].exists =>
               /\ start_viewcomments_rel(u, p) => button_viewcomments_rel(u, p)
               /\ start_viewcomments_json(u, p) => button_viewcomments_json(u, p)
      ]_vars

====
